---- MODULE Spec2Model ----
(***************************************************************************)
(* A model of the STUN codec and message builder (src/stun/src/lib.rs),    *)
(* the STUN attribute TLVs (src/stun/src/attribute/*.rs) and the ICE      *)
(* agent's per-socket responder (src/ice/src/lib.rs).                      *)
(*                                                                         *)
(* Bytes are naturals 0..255, byte strings are sequences of bytes, a u16   *)
(* is a natural below 65536 and a u32 is its four big-endian bytes (the    *)
(* model checker's integers are 32-bit signed).  Rust strings are the      *)
(* sequences of their UTF-8 bytes.                                         *)
(***************************************************************************)
EXTENDS Integers, Sequences, FiniteSets, TLC

VARIABLES
    msg,        \* builder: the stun::Message under construction
    lastOp,     \* builder: the builder method called last
    calls,      \* builder: number of builder calls in the current chain
    cin,        \* codec: the value handed to the codec function
    cop,        \* codec: the codec function applied last
    cout,       \* codec: its result
    agent,      \* ice: the Agent (or what is left once it is dropped)
    task,       \* ice: the responder task spawned by udp_listener
    sent,       \* ice: the datagrams send_to has put on the wire, in order
    rcvd,       \* ice: number of datagrams recv_from has returned
    pc          \* webrtc: the PeerConnection that owns the agent

builderVars == <<msg, lastOp, calls>>
codecVars == <<cin, cop, cout>>
iceVars == <<agent, task, sent, rcvd>>
pcVars == <<pc>>
vars == <<msg, lastOp, calls, cin, cop, cout, agent, task, sent, rcvd, pc>>

\* ------------------------------------------------------------------ bounds
MaxCalls == 3
MaxMsgAttrs == 2
MaxDatagrams == 2

\* ------------------------------------------------------------ bit helpers
RECURSIVE Xor(_, _)
Xor(a, b) ==
    IF a = 0 THEN b
    ELSE IF b = 0 THEN a
    ELSE (((a % 2) + (b % 2)) % 2) + 2 * Xor(a \div 2, b \div 2)

RECURSIVE Or(_, _)
Or(a, b) ==
    IF a = 0 THEN b
    ELSE IF b = 0 THEN a
    ELSE (IF a % 2 = 1 \/ b % 2 = 1 THEN 1 ELSE 0) + 2 * Or(a \div 2, b \div 2)

XorBytes(s, t) == [i \in 1..Len(s) |-> Xor(s[i], t[i])]

\* u16::to_be_bytes / be_u16
U16ToBe(n) == <<n \div 256, n % 256>>
BeToU16(b) == (b[1] * 256) + b[2]

\* u16 += u16 (wrapping; the bounds keep every sum far below 65536)
AddU16(a, b) == (a + b) % 65536

Drop(s, n) == SubSeq(s, n + 1, Len(s))
Take(s, n) == SubSeq(s, 1, n)

RECURSIVE Flatten(_)
Flatten(ss) == IF ss = <<>> THEN <<>> ELSE Head(ss) \o Flatten(Tail(ss))

RECURSIVE SumSeq(_)
SumSeq(s) == IF s = <<>> THEN 0 ELSE Head(s) + SumSeq(Tail(s))

\* const MAGIC_COOKIE: u32 = 0x_2112_A442, as big-endian bytes
MAGIC_COOKIE == <<33, 18, 164, 66>>
\* const FINGERPRINT_COOKIE: u32 = 0x_5354_554E, as big-endian bytes
FINGERPRINT_COOKIE == <<83, 84, 85, 78>>
\* (MAGIC_COOKIE >> 16) as u16
MagicCookieUpper16 == BeToU16(Take(MAGIC_COOKIE, 2))

\* ------------------------------------------- external digest primitives
\* HMAC-SHA1 and CRC-32 come from the crypto and crc crates.  They are
\* abstracted by a digest that depends on every input byte and its position;
\* only the output widths (20 and 4 bytes) are taken from the primitives.
RECURSIVE Mix(_, _, _)
Mix(s, lo, hi) ==
    IF lo > hi THEN 0
    ELSE IF lo = hi THEN (((lo * 131) + 7) * (s[lo] + 1)) % 65521
    ELSE LET mid == (lo + hi) \div 2
         IN  (Mix(s, lo, mid) + Mix(s, mid + 1, hi)) % 65521

HmacSha1(key, data) ==
    LET s == key \o <<0>> \o data
        d == Mix(s, 1, Len(s))
    IN  [i \in 1..20 |-> (d + (37 * i) + ((d \div 256) * i)) % 256]

Crc32Ieee(data) ==
    LET d == Mix(data, 1, Len(data))
    IN  [i \in 1..4 |-> (d + (101 * i) + ((d \div 256) * i)) % 256]

\* String::from_utf8(..).is_ok()
RECURSIVE IsUtf8(_)
IsUtf8(b) ==
    IF b = <<>> THEN TRUE
    ELSE LET c == b[1]
             Cont(i) == Len(b) >= i /\ b[i] >= 128 /\ b[i] <= 191
         IN  IF c < 128 THEN IsUtf8(Drop(b, 1))
             ELSE IF c >= 194 /\ c <= 223
                  THEN Cont(2) /\ IsUtf8(Drop(b, 2))
             ELSE IF c >= 224 /\ c <= 239
                  THEN /\ Cont(2) /\ Cont(3)
                       /\ (c = 224 => b[2] >= 160)
                       /\ (c = 237 => b[2] <= 159)
                       /\ IsUtf8(Drop(b, 3))
             ELSE IF c >= 240 /\ c <= 244
                  THEN /\ Cont(2) /\ Cont(3) /\ Cont(4)
                       /\ (c = 240 => b[2] >= 144)
                       /\ (c = 244 => b[2] <= 143)
                       /\ IsUtf8(Drop(b, 4))
             ELSE FALSE

\* ------------------------------------------------ stun: header (lib.rs)
Classes == {"Request", "Indication", "Success", "Error"}

\* Header::to_bytes: class bits
ClassBits(class) ==
    CASE class = "Request" -> 0
      [] class = "Indication" -> 1
      [] class = "Success" -> 2
      [] class = "Error" -> 3

\* Header::to_bytes (the only Method is Binding, m = 0b0000_0000_0001)
HeaderToBytes(h) ==
    LET c == ClassBits(h.class)
        m == 1
        c_0 == c % 2
        c_1 == (c \div 2) % 2
        m_3_0 == m % 16
        m_6_4 == (m \div 16) % 8
        m_11_7 == (m \div 128) % 32
        mt == Or(Or(Or(Or(m_11_7 * 512, c_1 * 256), m_6_4 * 32), c_0 * 16), m_3_0)
    IN  U16ToBe(mt) \o U16ToBe(h.length) \o MAGIC_COOKIE \o h.transaction_id

\* Parse results: k is "Ok", "Err" (a nom error value) or "Panic" (the
\* calling task unwinds: unwrap, unimplemented!, a slice index out of range).
Ok(v, rest) == [k |-> "Ok", v |-> v, rest |-> rest]
Err == [k |-> "Err", v |-> <<>>, rest |-> <<>>]
Panic == [k |-> "Panic", v |-> <<>>, rest |-> <<>>]

\* Throughout, (CHOOSE y \in {(body) : x \in {e}} : TRUE) is body with x
\* bound to the value of e, which is evaluated once. The bindings of a
\* definition are listed after its body and read from the last line up, in
\* the order of the statements of the function they model.

\* fn message_type(input: &[u8]), on the two bytes header hands it
message_type(input) ==
    LET v == BeToU16(input)
        m_11_7 == (v \div 512) % 32
        c_1 == (v \div 256) % 2
        m_6_4 == (v \div 32) % 8
        c_0 == (v \div 16) % 2
        m_3_0 == v % 16
        c == Or(c_1 * 2, c_0)
        class == CASE c = 0 -> "Request"
                   [] c = 1 -> "Indication"
                   [] c = 2 -> "Success"
                   [] c = 3 -> "Error"
        \* the three operands are u8: bits shifted past bit 7 are lost
        m == Or(Or((m_11_7 * 64) % 256, m_6_4 * 8), m_3_0)
    IN  IF v >= 16384 THEN Err              \* tag_bits(0b00, 2)
        ELSE IF m = 1 THEN Ok([class |-> class, method |-> "Binding"], <<>>)
        ELSE Panic                          \* unimplemented!()

\* pub fn header(input: &[u8])
header(input) ==
    IF Len(input) < 2 THEN Err
    ELSE LET mt == message_type(Take(input, 2))
         IN  IF mt.k # "Ok" THEN mt
             ELSE IF Len(input) < 4 THEN Err
             ELSE IF Len(input) < 8 \/ SubSeq(input, 5, 8) # MAGIC_COOKIE THEN Err
             ELSE IF Len(input) < 20 THEN Err
             ELSE Ok([class |-> mt.v.class,
                      method |-> mt.v.method,
                      length |-> BeToU16(SubSeq(input, 3, 4)),
                      transaction_id |-> SubSeq(input, 9, 20)],
                     Drop(input, 20))

\* --------------------------------------------- stun: attributes (lib.rs)
\* enum Attribute of lib.rs
ComprehensionOptional(value) == [t |-> "ComprehensionOptional", value |-> value]
Fingerprint(value) == [t |-> "Fingerprint", value |-> value]
MessageIntegrity(code) == [t |-> "MessageIntegrity", value |-> code]
Priority(value) == [t |-> "Priority", value |-> value]
Username(s) == [t |-> "Username", value |-> s]
XorMappedAddress(address, port) ==
    [t |-> "XorMappedAddress", value |-> <<address, port>>]

\* fn fingerprint_to_bytes(checksum: u32)
fingerprint_to_bytes(checksum) ==
    U16ToBe(32808) \o U16ToBe(Len(checksum)) \o checksum

\* fn message_integrity_to_bytes(code: &[u8])
message_integrity_to_bytes(code) ==
    U16ToBe(8) \o U16ToBe(Len(code)) \o code

\* fn username_to_bytes(username: String)
username_to_bytes(username) ==
    U16ToBe(6) \o U16ToBe(Len(username)) \o username

\* fn xor_mapped_address_to_bytes(address: &IpAddr, port: u16), IPv4
xor_mapped_address_to_bytes(address, port) ==
    LET family_field == U16ToBe(1)
        x_address_field == XorBytes(address, MAGIC_COOKIE)
        x_port_field == U16ToBe(Xor(port, MagicCookieUpper16))
        value_field == family_field \o x_port_field \o x_address_field
    IN  U16ToBe(32) \o U16ToBe(Len(value_field)) \o value_field

\* Attribute::to_bytes of lib.rs implements four variants; the others reach
\* unimplemented!()
AttrToBytesPanics(a) == a.t \in {"ComprehensionOptional", "Priority"}

\* Attribute::to_bytes of lib.rs (where it returns)
AttrToBytes(a) ==
    CASE a.t = "Fingerprint" -> fingerprint_to_bytes(a.value)
      [] a.t = "MessageIntegrity" -> message_integrity_to_bytes(a.value)
      [] a.t = "Username" -> username_to_bytes(a.value)
      [] a.t = "XorMappedAddress" -> xor_mapped_address_to_bytes(a.value[1], a.value[2])

\* ------------------------------------------------ stun: message (lib.rs)
\* Message::to_bytes
MessageToBytes(m) ==
    HeaderToBytes(m.header)
        \o Flatten([i \in 1..Len(m.attributes) |-> AttrToBytes(m.attributes[i])])

\* the number of bytes Message::to_bytes emits for the attribute section
AttributeSectionLen(m) ==
    SumSeq([i \in 1..Len(m.attributes) |-> Len(AttrToBytes(m.attributes[i]))])

\* fn comprehension_optional(input: &[u8]) of lib.rs
comprehension_optional(input) == Ok(ComprehensionOptional(input), <<>>)

\* fn fingerprint(input: &[u8]) of lib.rs; split_at(4) panics on a short input
fingerprint(input) ==
    IF Len(input) < 4 THEN Panic
    ELSE Ok(Fingerprint(Take(input, 4)), Drop(input, 4))

\* fn message_integrity(input: &[u8]) of lib.rs
message_integrity(input) ==
    IF Len(input) < 20 THEN Panic
    ELSE Ok(MessageIntegrity(Take(input, 20)), Drop(input, 20))

\* fn priority(input: &[u8]) of lib.rs
priority(input) ==
    IF Len(input) < 4 THEN Panic
    ELSE Ok(Priority(Take(input, 4)), Drop(input, 4))

\* fn username(input: &[u8]) of lib.rs; from_utf8(..).unwrap()
username(input) ==
    IF IsUtf8(input) THEN Ok(Username(input), <<>>) ELSE Panic

\* fn xor_mapped_address(input: &[u8]) of lib.rs
xor_mapped_address(input) ==
    IF Len(input) < 4 THEN Err
    ELSE LET family_field == BeToU16(Take(input, 2)) % 256
             x_port_field == BeToU16(SubSeq(input, 3, 4))
             x_address_field == Drop(input, 4)
             port == Xor(x_port_field, MagicCookieUpper16)
         IN  IF family_field # 1 THEN Panic          \* unimplemented!()
             ELSE IF Len(x_address_field) < 4 THEN Panic   \* split_at(4)
             ELSE Ok(XorMappedAddress(
                         XorBytes(Take(x_address_field, 4), MAGIC_COOKIE), port),
                     Drop(x_address_field, 4))

\* fn attribute: the type dispatch (match typ_field); "none" is the
\* unimplemented!() arm
AttributeParser(typ_field) ==
    CASE typ_field = 6 -> "username"
      [] typ_field = 8 -> "message_integrity"
      [] typ_field = 32 -> "xor_mapped_address"
      [] typ_field = 36 -> "priority"
      [] typ_field >= 32768 /\ typ_field <= 32807 -> "comprehension_optional"
      [] typ_field = 32808 -> "fingerprint"
      [] typ_field >= 32809 /\ typ_field <= 65535 -> "comprehension_optional"
      [] OTHER -> "none"

ApplyParser(parser, value_field) ==
    CASE parser = "username" -> username(value_field)
      [] parser = "message_integrity" -> message_integrity(value_field)
      [] parser = "xor_mapped_address" -> xor_mapped_address(value_field)
      [] parser = "priority" -> priority(value_field)
      [] parser = "fingerprint" -> fingerprint(value_field)
      [] parser = "comprehension_optional" -> comprehension_optional(value_field)

\* fn attribute(input: &[u8]) of lib.rs
attribute(input) ==
    IF Len(input) < 4 THEN Err
    ELSE LET typ_field == BeToU16(Take(input, 2))
             len == BeToU16(SubSeq(input, 3, 4))
         IN  IF Len(input) < 4 + len THEN Err          \* length_data(be_u16)
             ELSE LET value_field == SubSeq(input, 5, 4 + len)
                      remainder == Drop(input, 4 + len)
                      pad_len == (4 - (len % 4)) % 4
                      parser == AttributeParser(typ_field)
                  IN  IF Len(remainder) < pad_len THEN Panic  \* remainder[0..pad_len]
                      ELSE IF parser = "none" THEN Panic
                      ELSE LET r == ApplyParser(parser, value_field)
                           IN  IF r.k = "Panic" THEN Panic
                               ELSE IF r.k = "Err" \/ r.rest # <<>>
                                    THEN Err           \* all_consuming
                               ELSE Ok(r.v, Drop(remainder, pad_len))

\* many0(attribute): collects until attribute returns an error value
RECURSIVE many0_attribute(_)
many0_attribute(input) ==
    LET r == attribute(input)
    IN  IF r.k = "Panic" THEN Panic
        ELSE IF r.k = "Err" THEN Ok(<<>>, input)
        ELSE LET more == many0_attribute(r.rest)
             IN  IF more.k = "Panic" THEN Panic
                 ELSE Ok(<<r.v>> \o more.v, more.rest)

\* pub fn message(input: &[u8])
message(input) ==
    LET h == header(input)
    IN  IF h.k # "Ok" THEN h
        ELSE LET attrs == many0_attribute(h.rest)
             IN  IF attrs.k # "Ok" THEN attrs
                 ELSE Ok([header |-> h.v, attributes |-> attrs.v], attrs.rest)

\* to_bytes followed by message, as a caller composes them
RoundTrip(m) ==
    IF \E i \in 1..Len(m.attributes) : AttrToBytesPanics(m.attributes[i])
    THEN Panic
    ELSE message(MessageToBytes(m))

\* Header::new(method, class, transaction_id): a header of an empty message
HeaderNew(class, transaction_id) ==
    [class |-> class, method |-> "Binding", length |-> 0,
     transaction_id |-> transaction_id]

\* Message::base
base(h) == [header |-> h, attributes |-> <<>>]

\* Message::with_attributes: the loop runs over self.attributes, the list
\* the message holds BEFORE the assignment
with_attributes(m, attributes) ==
    [header |-> [m.header EXCEPT !.length =
                    AddU16(@, AttributeSectionLen(m))],
     attributes |-> attributes]

\* Message::and_attribute
and_attribute(m, a) ==
    [header |-> [m.header EXCEPT !.length =
                    AddU16(@, Len(AttrToBytes(a)))],
     attributes |-> Append(m.attributes, a)]

\* Message::with_message_integrity
with_message_integrity(m, key) ==
    LET m1 == [m EXCEPT !.header.length = AddU16(@, 24)]
        code == HmacSha1(key, MessageToBytes(m1))
    IN  [m1 EXCEPT !.attributes = Append(@, MessageIntegrity(code))]

\* mutant: the FINGERPRINT attribute is put in front of the list
with_fingerprint_in_front(m) ==
    LET m1 == [m EXCEPT !.header.length = AddU16(@, 36)]
        checksum == Crc32Ieee(MessageToBytes(m1))
        value == XorBytes(checksum, FINGERPRINT_COOKIE)
    IN  [m1 EXCEPT !.attributes = <<Fingerprint(value)>> \o @]

\* Message::with_fingerprint
with_fingerprint(m) ==
    LET m1 == [m EXCEPT !.header.length = AddU16(@, 36)]
        checksum == Crc32Ieee(MessageToBytes(m1))
        value == XorBytes(checksum, FINGERPRINT_COOKIE)
    IN  [m1 EXCEPT !.attributes = Append(@, Fingerprint(value))]

\* ------------------------------ stun: the Tlv trait (attribute/*.rs)
\* The attribute structs of src/stun/src/attribute: each knows its type,
\* its length and its value bytes.
TlvComprehensionOptional(typ, value) ==
    [t |-> "ComprehensionOptional", typ |-> typ, value |-> value]
TlvErrorCode(numeric_code, reason_phrase) ==
    [t |-> "ErrorCode", numeric_code |-> numeric_code,
     reason_phrase |-> reason_phrase]
TlvFingerprint(value) == [t |-> "Fingerprint", value |-> value]
TlvMessageIntegrity(buf) == [t |-> "MessageIntegrity", value |-> buf]
TlvPriority(value) == [t |-> "Priority", value |-> value]
TlvUsername(s) == [t |-> "Username", value |-> s]
TlvXorMappedAddress(address, port) ==
    [t |-> "XorMappedAddress", address |-> address, port |-> port]
TlvUseCandidate == [t |-> "UseCandidate"]

\* fingerprint.rs: const MAGIC_NUMBER: u32 = 0x_5354_554E, big-endian bytes
MAGIC_NUMBER == <<83, 84, 85, 78>>

\* enum NumericCode (error_code.rs)
NumericCodes ==
    {300, 400, 401, 403, 405, 420, 437, 438, 440, 441, 442, 443, 446, 447,
     486, 487, 500, 508}

\* pad a value to the next multiple of four with zero bytes
PadTo4(value_field) ==
    value_field \o [i \in 1..((4 - (Len(value_field) % 4)) % 4) |-> 0]

\* Tlv::typ
TlvTyp(a) ==
    CASE a.t = "ComprehensionOptional" -> a.typ
      [] a.t = "ErrorCode" -> 9
      [] a.t = "Fingerprint" -> 32808
      [] a.t = "MessageIntegrity" -> 8
      [] a.t = "Priority" -> 36
      [] a.t = "Username" -> 6
      [] a.t = "XorMappedAddress" -> 32
      [] a.t = "UseCandidate" -> 37

\* Tlv::value
TlvValue(a) ==
    CASE a.t = "ComprehensionOptional" -> a.value
      [] a.t = "ErrorCode" ->
            LET class == a.numeric_code \div 100
                number == a.numeric_code % 100
            IN  PadTo4(<<0, 0, class, number>> \o a.reason_phrase)
      [] a.t = "Fingerprint" -> XorBytes(a.value, MAGIC_NUMBER)
      [] a.t = "MessageIntegrity" -> a.value
      [] a.t = "Priority" -> a.value
      [] a.t = "Username" -> PadTo4(a.value)
      [] a.t = "XorMappedAddress" ->
            U16ToBe(1) \o U16ToBe(Xor(a.port, MagicCookieUpper16))
                \o XorBytes(a.address, MAGIC_COOKIE)
      [] a.t = "UseCandidate" -> <<>>

\* Tlv::length
TlvLength(a) ==
    CASE a.t = "ComprehensionOptional" -> Len(a.value)
      [] a.t = "ErrorCode" -> 4 + Len(a.reason_phrase)
      [] a.t = "Fingerprint" -> 4
      [] a.t = "MessageIntegrity" -> 20
      [] a.t = "Priority" -> 4
      [] a.t = "Username" -> Len(a.value)
      [] a.t = "XorMappedAddress" -> Len(TlvValue(a))
      [] a.t = "UseCandidate" -> 0

\* Tlv::to_bytes
TlvToBytes(a) == U16ToBe(TlvTyp(a)) \o U16ToBe(TlvLength(a)) \o TlvValue(a)

\* ----------------------- stun: the parsers of attribute/*.rs (Tlv variant)
\* length_data(be_u16) behind two bytes of type: the value field and what
\* follows it
LengthData(input) ==
    IF Len(input) < 4 THEN Err
    ELSE LET len == BeToU16(SubSeq(input, 3, 4))
         IN  IF Len(input) < 4 + len THEN Err
             ELSE Ok(SubSeq(input, 5, 4 + len), Drop(input, 4 + len))

\* preceded(tag(TYPE.to_be_bytes()), length_data(be_u16))
TaggedLengthData(typ, input) ==
    IF Len(input) < 2 \/ Take(input, 2) # U16ToBe(typ) THEN Err
    ELSE LengthData(input)

\* username.rs: fn username
tlv_username(input) ==
    LET f == TaggedLengthData(6, input)
    IN  IF f.k # "Ok" THEN f
        ELSE LET pad_len == (4 - (Len(f.v) % 4)) % 4
             IN  IF Len(f.rest) < pad_len THEN Panic   \* &remainder[pad_len..]
                 ELSE IF ~IsUtf8(f.v) THEN Panic       \* from_utf8(..).unwrap()
                 ELSE Ok(TlvUsername(f.v), Drop(f.rest, pad_len))

\* mutant: the port is stored as it arrives, without the XOR
tlv_xor_mapped_address_plain_port(input) ==
    LET f == TaggedLengthData(32, input)
    IN  IF f.k # "Ok" THEN f
        ELSE IF Len(f.v) < 4 THEN Err
        ELSE LET family_field == f.v[2]
                 port == BeToU16(SubSeq(f.v, 3, 4))
                 x_address_field == Drop(f.v, 4)
             IN  IF family_field = 1
                 THEN IF Len(x_address_field) < 4 THEN Panic
                      ELSE Ok(TlvXorMappedAddress(
                                  XorBytes(Take(x_address_field, 4), MAGIC_COOKIE),
                                  port),
                              f.rest)
                 ELSE Panic

\* xor_mapped_address.rs: fn xor_mapped_address
tlv_xor_mapped_address(input) ==
    LET f == TaggedLengthData(32, input)
    IN  IF f.k # "Ok" THEN f
        ELSE IF Len(f.v) < 4 THEN Err                  \* tuple((be_u16, be_u16))
        ELSE LET family_field == f.v[2]                \* &= 0b_0000_0000_1111_1111
                 port == Xor(BeToU16(SubSeq(f.v, 3, 4)), MagicCookieUpper16)
                 x_address_field == Drop(f.v, 4)
             IN  IF family_field = 1
                 THEN IF Len(x_address_field) < 4 THEN Panic     \* split_at(4)
                      ELSE Ok(TlvXorMappedAddress(
                                  XorBytes(Take(x_address_field, 4), MAGIC_COOKIE),
                                  port),
                              f.rest)
                 ELSE Panic                            \* unimplemented!()

\* priority.rs: fn priority
tlv_priority(input) ==
    LET f == TaggedLengthData(36, input)
    IN  IF f.k # "Ok" THEN f
        ELSE IF Len(f.v) # 4 THEN Panic                \* try_into().unwrap()
        ELSE Ok(TlvPriority(f.v), f.rest)

\* fingerprint.rs: fn fingerprint
tlv_fingerprint(input) ==
    LET f == TaggedLengthData(32808, input)
    IN  IF f.k # "Ok" THEN f
        ELSE IF Len(f.v) # 4 THEN Panic                \* try_into().unwrap()
        ELSE Ok(TlvFingerprint(XorBytes(f.v, MAGIC_NUMBER)), f.rest)

\* message_integrity.rs: fn message_integrity and TryFrom<&[u8]>
tlv_message_integrity(input) ==
    LET f == TaggedLengthData(8, input)
    IN  IF f.k # "Ok" THEN f
        ELSE IF Len(f.v) # 20 THEN Err                 \* InvalidMessageIntegrity
        ELSE Ok(TlvMessageIntegrity(f.v), f.rest)

\* Error::InvalidErrorCode(class_and_number) as a nom error
InvalidErrorCode(class_and_number) ==
    [k |-> "Err", v |-> <<"InvalidErrorCode", class_and_number>>, rest |-> <<>>]

\* error_code.rs: fn error_code
tlv_error_code(input) ==
    LET f == TaggedLengthData(9, input)
    IN  IF f.k # "Ok" THEN f
        ELSE IF Len(f.v) < 4 THEN Err                  \* bits: 21 + 3 + 8
        ELSE LET class == f.v[3] % 8
                 number == f.v[4]
                 class_and_number == (class * 100) + number
                 value_remainder == Drop(f.v, 4)
             IN  IF class_and_number \notin NumericCodes
                 THEN InvalidErrorCode(class_and_number)
                 ELSE IF ~IsUtf8(value_remainder) THEN Panic
                 ELSE Ok(TlvErrorCode(class_and_number, value_remainder), f.rest)

\* comprehension_optional.rs: fn comprehension_optional
tlv_comprehension_optional(input) ==
    LET f == LengthData(input)
    IN  IF f.k # "Ok" THEN f
        ELSE Ok(TlvComprehensionOptional(BeToU16(Take(input, 2)), f.v), f.rest)

\* use_candidate.rs: fn use_candidate
use_candidate(input) ==
    LET f == TaggedLengthData(37, input)
    IN  IF f.k # "Ok" THEN f
        ELSE Ok(TlvUseCandidate, f.rest)

\* an error value that carries the attribute type
UnimplementedAttribute(attribute_type) ==
    [k |-> "Err", v |-> <<"UnimplementedAttribute", attribute_type>>, rest |-> <<>>]

\* attribute/mod.rs: fn attribute, the dispatch on the peeked type
TlvAttribute(input) ==
    IF Len(input) < 2 THEN Err                         \* peek(be_u16)
    ELSE LET attribute_type == BeToU16(Take(input, 2))
         IN  CASE attribute_type = 6 -> tlv_username(input)
               [] attribute_type = 8 -> tlv_message_integrity(input)
               [] attribute_type = 9 -> tlv_error_code(input)
               [] attribute_type = 32 -> tlv_xor_mapped_address(input)
               [] attribute_type = 36 -> tlv_priority(input)
               [] attribute_type = 32808 -> tlv_fingerprint(input)
               [] attribute_type >= 32768 /\ attribute_type # 32808 ->
                      tlv_comprehension_optional(input)
               [] OTHER -> UnimplementedAttribute(attribute_type)

\* =================================================================== sdp
\* Text is a sequence of characters, each a one-character string; CR and LF
\* stand for the carriage return and the line feed.
CR == "CR"
LF == "LF"
CRLF == <<CR, LF>>
Digits == {"0", "1", "2", "3", "4", "5", "6", "7", "8", "9"}
DigitValue(c) ==
    CASE c = "0" -> 0 [] c = "1" -> 1 [] c = "2" -> 2 [] c = "3" -> 3
      [] c = "4" -> 4 [] c = "5" -> 5 [] c = "6" -> 6 [] c = "7" -> 7
      [] c = "8" -> 8 [] c = "9" -> 9
DigitChar(d) ==
    CASE d = 0 -> "0" [] d = 1 -> "1" [] d = 2 -> "2" [] d = 3 -> "3"
      [] d = 4 -> "4" [] d = 5 -> "5" [] d = 6 -> "6" [] d = 7 -> "7"
      [] d = 8 -> "8" [] d = 9 -> "9"

\* char::is_whitespace on the characters the model uses
Whitespace == {" ", "TAB", CR, LF}

\* the length of the longest prefix of input whose characters satisfy keep
RECURSIVE PrefixLen(_, _)
PrefixLen(input, keep) ==
    IF input = <<>> \/ input[1] \notin keep THEN 0
    ELSE 1 + PrefixLen(Tail(input), keep)

\* the length of the longest prefix of input free of the characters in stop
RECURSIVE PrefixLenTill(_, _)
PrefixLenTill(input, stop) ==
    IF input = <<>> \/ input[1] \in stop THEN 0
    ELSE 1 + PrefixLenTill(Tail(input), stop)

IsPrefix(t, input) == Len(input) >= Len(t) /\ Take(input, Len(t)) = t

\* nom tag(t)
Tag(t, input) == IF IsPrefix(t, input) THEN Ok(t, Drop(input, Len(t))) ELSE Err

\* nom digit1
Digit1(input) ==
    (CHOOSE y \in {(
    IF n = 0 THEN Err ELSE Ok(Take(input, n), Drop(input, n))
    ) : n \in {PrefixLen(input, Digits)}} : TRUE)

\* nom take_till1(|c| c is in stop)
TakeTill1(stop, input) ==
    (CHOOSE y \in {(
    IF n = 0 THEN Err ELSE Ok(Take(input, n), Drop(input, n))
    ) : n \in {PrefixLenTill(input, stop)}} : TRUE)

\* nom line_ending: "\n" or "\r\n"
LineEnding(input) ==
    IF IsPrefix(<<LF>>, input) THEN Ok(<<LF>>, Tail(input))
    ELSE IF IsPrefix(CRLF, input) THEN Ok(CRLF, Drop(input, 2))
    ELSE Err

\* nom not_line_ending: everything up to the first "\n" or "\r\n"; a
\* carriage return that no line feed follows is an error; the match may be
\* empty and may run to the end of the input
NotLineEnding(input) ==
    (CHOOSE y \in {(
    (CHOOSE y \in {(
    IF rest # <<>> /\ rest[1] = CR /\ ~IsPrefix(CRLF, rest) THEN Err
        ELSE Ok(Take(input, n), rest)
    ) : rest \in {Drop(input, n)}} : TRUE)
    ) : n \in {PrefixLenTill(input, {CR, LF})}} : TRUE)

\* delimited(tag(t), not_line_ending, line_ending)
TagLine(t, input) ==
    (CHOOSE y \in {(
    IF a.k # "Ok" THEN Err
        ELSE (CHOOSE y \in {(
             IF b.k # "Ok" THEN Err
                 ELSE (CHOOSE y \in {(
                      IF c.k # "Ok" THEN Err ELSE Ok(b.v, c.rest)
                 ) : c \in {LineEnding(b.rest)}} : TRUE)
        ) : b \in {NotLineEnding(a.rest)}} : TRUE)
    ) : a \in {Tag(t, input)}} : TRUE)

\* a parser result handed through opt(..): None is <<>>, Some(v) is <<v>>
Opt(r, input) ==
    IF r.k = "Ok" THEN Ok(<<r.v>>, r.rest)
    ELSE IF r.k = "Err" THEN Ok(<<>>, input)
    ELSE r

\* digits without leading zeros: the decimal text of the number they spell
RECURSIVE Canonical(_)
Canonical(digits) ==
    IF Len(digits) > 1 /\ digits[1] = "0" THEN Canonical(Tail(digits))
    ELSE digits

\* lexicographic <= on digit strings of equal length
RECURSIVE DigitsLeq(_, _)
DigitsLeq(a, b) ==
    IF a = <<>> THEN TRUE
    ELSE IF DigitValue(a[1]) < DigitValue(b[1]) THEN TRUE
    ELSE IF DigitValue(a[1]) > DigitValue(b[1]) THEN FALSE
    ELSE DigitsLeq(Tail(a), Tail(b))

\* u64::MAX = 18446744073709551615
U64Max ==
    <<"1", "8", "4", "4", "6", "7", "4", "4", "0", "7", "3", "7", "0", "9",
      "5", "5", "1", "6", "1", "5">>

\* u64::from_str_radix(digits, 10).unwrap(): a u64 is kept as its decimal
\* text, the way Display prints it
U64FromStr(digits) ==
    (CHOOSE y \in {(
    IF Len(c) < Len(U64Max) \/ (Len(c) = Len(U64Max) /\ DigitsLeq(c, U64Max))
        THEN Ok(c, <<>>)
        ELSE Panic
    ) : c \in {Canonical(digits)}} : TRUE)

\* the number a short digit string spells
RECURSIVE DigitsValue(_)
DigitsValue(digits) ==
    IF digits = <<>> THEN 0
    ELSE (DigitsValue(Take(digits, Len(digits) - 1)) * 10)
            + DigitValue(digits[Len(digits)])

\* Display of a small unsigned integer
RECURSIVE NatToString(_)
NatToString(n) ==
    IF n < 10 THEN <<DigitChar(n)>>
    ELSE NatToString(n \div 10) \o <<DigitChar(n % 10)>>

\* u8::from_str_radix(digits, 10).unwrap()
U8FromStr(digits) ==
    (CHOOSE y \in {(
    IF Len(c) <= 3 /\ DigitsValue(c) <= 255 THEN Ok(DigitsValue(c), <<>>)
        ELSE Panic
    ) : c \in {Canonical(digits)}} : TRUE)

\* ------------------------------------------------- sdp: the line types
\* version.rs: Display for Version
VersionDisplay(v) == <<"v", "=">> \o NatToString(v) \o CRLF

\* version.rs: fn version
version(input) ==
    (CHOOSE y \in {(
    IF a.k # "Ok" THEN Err
        ELSE (CHOOSE y \in {(
             IF d.k # "Ok" THEN Err
                 ELSE (CHOOSE y \in {(
                      IF e.k # "Ok" THEN Err
                          ELSE (CHOOSE y \in {(    \* unwrap()
                               IF n.k # "Ok" THEN Panic
                                   ELSE Ok(n.v, e.rest)
                          ) : n \in {U8FromStr(d.v)}} : TRUE)
                 ) : e \in {LineEnding(d.rest)}} : TRUE)
        ) : d \in {Digit1(a.rest)}} : TRUE)
    ) : a \in {Tag(<<"v", "=">>, input)}} : TRUE)

\* origin.rs: Display for Origin
OriginDisplay(o) ==
    <<"o", "=">> \o o.username \o <<" ">> \o o.session_id \o <<" ">>
        \o o.session_version \o <<" ">> \o o.network_type \o <<" ">>
        \o o.address_type \o <<" ">> \o o.unicast_address \o CRLF

\* origin.rs: fn origin
origin(input) ==
    (CHOOSE y \in {(
    (CHOOSE y \in {(
    (CHOOSE y \in {(
    (CHOOSE y \in {(
    (CHOOSE y \in {(
    (CHOOSE y \in {(
    (CHOOSE y \in {(
    (CHOOSE y \in {(
    (CHOOSE y \in {(
    (CHOOSE y \in {(
    (CHOOSE y \in {(
    (CHOOSE y \in {(
    (CHOOSE y \in {(
    IF sid.k = "Ok" /\ session_id.k = "Panic" THEN Panic
        ELSE IF sver.k = "Ok" /\ session_version.k = "Panic" THEN Panic
        ELSE IF unicast_address.k # "Ok" THEN Err
        ELSE Ok([username |-> user.v,
                 session_id |-> session_id.v,
                 session_version |-> session_version.v,
                 network_type |-> network_type.v,
                 address_type |-> address_type.v,
                 unicast_address |-> unicast_address.v],
                unicast_address.rest)
    ) : unicast_address \in {IF address_type.k = "Ok" THEN TagLine(<<" ">>, address_type.rest) ELSE Err}} : TRUE)
    ) : address_type \in {IF sp4.k = "Ok" THEN TakeTill1({" "}, sp4.rest) ELSE Err}} : TRUE)
    ) : sp4 \in {IF network_type.k = "Ok" THEN Tag(<<" ">>, network_type.rest) ELSE Err}} : TRUE)
    ) : network_type \in {IF sp3.k = "Ok" THEN TakeTill1({" "}, sp3.rest) ELSE Err}} : TRUE)
    ) : sp3 \in {IF session_version.k = "Ok" THEN Tag(<<" ">>, sver.rest) ELSE Err}} : TRUE)
    ) : session_version \in {IF sver.k = "Ok" THEN U64FromStr(sver.v) ELSE Err}} : TRUE)
    ) : sver \in {IF sp2.k = "Ok" THEN Digit1(sp2.rest) ELSE Err}} : TRUE)
    ) : sp2 \in {IF session_id.k = "Ok" THEN Tag(<<" ">>, sid.rest) ELSE Err}} : TRUE)
    ) : session_id \in {IF sid.k = "Ok" THEN U64FromStr(sid.v) ELSE Err}} : TRUE)
    ) : sid \in {IF sp1.k = "Ok" THEN Digit1(sp1.rest) ELSE Err}} : TRUE)
    ) : sp1 \in {IF user.k = "Ok" THEN Tag(<<" ">>, user.rest) ELSE Err}} : TRUE)
    ) : user \in {IF t.k = "Ok" THEN TakeTill1({" "}, t.rest) ELSE Err}} : TRUE)
    ) : t \in {Tag(<<"o", "=">>, input)}} : TRUE)

\* session_name.rs, session_information.rs, uri.rs, email_address.rs,
\* phone_number.rs: Display
SessionNameDisplay(name) == <<"s", "=">> \o name \o CRLF
SessionInformationDisplay(text) == <<"i", "=">> \o text \o CRLF
URIDisplay(text) == <<"u", "=">> \o text \o CRLF
EmailAddressDisplay(text) == <<"e", "=">> \o text \o CRLF
PhoneNumberDisplay(text) == <<"p", "=">> \o text \o CRLF

\* the parsers of the same files
session_name(input) == TagLine(<<"s", "=">>, input)
session_information(input) == TagLine(<<"i", "=">>, input)
uri(input) == TagLine(<<"u", "=">>, input)
email_address(input) == TagLine(<<"e", "=">>, input)
phone_number(input) == TagLine(<<"p", "=">>, input)

\* connection.rs: Display for Connection
ConnectionDisplay(c) ==
    <<"c", "=">> \o c.network_type \o <<" ">> \o c.address_type \o <<" ">>
        \o c.connection_address \o CRLF

\* connection.rs: fn connection
connection(input) ==
    (CHOOSE y \in {(
    (CHOOSE y \in {(
    (CHOOSE y \in {(
    (CHOOSE y \in {(
    (CHOOSE y \in {(
    IF connection_address.k # "Ok" THEN Err
        ELSE Ok([network_type |-> network_type.v,
                 address_type |-> address_type.v,
                 connection_address |-> connection_address.v],
                connection_address.rest)
    ) : connection_address \in {IF address_type.k = "Ok" THEN TagLine(<<" ">>, address_type.rest) ELSE Err}} : TRUE)
    ) : address_type \in {IF sp1.k = "Ok" THEN TakeTill1({" "}, sp1.rest) ELSE Err}} : TRUE)
    ) : sp1 \in {IF network_type.k = "Ok" THEN Tag(<<" ">>, network_type.rest) ELSE Err}} : TRUE)
    ) : network_type \in {IF t.k = "Ok" THEN TakeTill1({" "}, t.rest) ELSE Err}} : TRUE)
    ) : t \in {Tag(<<"c", "=">>, input)}} : TRUE)

\* bandwidth.rs: enum BandwidthType; Experimental(x) is <<"X", x>>
BandwidthCT == <<"CT">>
BandwidthAS == <<"AS">>
BandwidthExperimental(x) == <<"X", x>>

\* bandwidth.rs: Display for BandwidthType and Bandwidth
BandwidthDisplay(b) ==
    <<"b", "=">>
        \o (IF b.typ = BandwidthCT THEN <<"C", "T">>
            ELSE IF b.typ = BandwidthAS THEN <<"A", "S">>
            ELSE <<"X", "-">> \o b.typ[2])
        \o <<":">> \o b.value \o CRLF

\* bandwidth.rs: fn bandwidth_type
bandwidth_type(input) ==
    (CHOOSE y \in {(
    IF t.k # "Ok" THEN Err
        ELSE IF IsPrefix(<<"C", "T">>, t.rest) THEN Ok(BandwidthCT, Drop(t.rest, 2))
        ELSE IF IsPrefix(<<"A", "S">>, t.rest) THEN Ok(BandwidthAS, Drop(t.rest, 2))
        ELSE (CHOOSE y \in {(
             (CHOOSE y \in {(
             IF name.k # "Ok" THEN Err
                 \* the closure matches on the text: "CT" and "AS" again
                 ELSE IF name.v = <<"C", "T">> THEN Ok(BandwidthCT, name.rest)
                 ELSE IF name.v = <<"A", "S">> THEN Ok(BandwidthAS, name.rest)
                 ELSE Ok(BandwidthExperimental(name.v), name.rest)
             ) : name \in {IF x.k = "Ok" THEN TakeTill1({":"}, x.rest) ELSE Err}} : TRUE)
        ) : x \in {Tag(<<"X", "-">>, t.rest)}} : TRUE)
    ) : t \in {Tag(<<"b", "=">>, input)}} : TRUE)

\* bandwidth.rs: fn bandwidth_value
bandwidth_value(input) ==
    (CHOOSE y \in {(
    (CHOOSE y \in {(
    (CHOOSE y \in {(
    IF e.k # "Ok" THEN Err
        ELSE (CHOOSE y \in {(
             IF n.k # "Ok" THEN Panic ELSE Ok(n.v, e.rest)
        ) : n \in {U64FromStr(d.v)}} : TRUE)
    ) : e \in {IF d.k = "Ok" THEN LineEnding(d.rest) ELSE Err}} : TRUE)
    ) : d \in {IF t.k = "Ok" THEN Digit1(t.rest) ELSE Err}} : TRUE)
    ) : t \in {Tag(<<":">>, input)}} : TRUE)

\* bandwidth.rs: fn bandwidth
bandwidth(input) ==
    (CHOOSE y \in {(
    IF typ.k # "Ok" THEN typ
        ELSE (CHOOSE y \in {(
             IF value.k # "Ok" THEN value
                 ELSE Ok([typ |-> typ.v, value |-> value.v], value.rest)
        ) : value \in {bandwidth_value(typ.rest)}} : TRUE)
    ) : typ \in {bandwidth_type(input)}} : TRUE)

\* time_description.rs: Display for Timing
TimingDisplay(t) ==
    <<"t", "=">> \o t.start_time \o <<" ">> \o t.stop_time \o CRLF

\* time_description.rs: fn timing
timing(input) ==
    (CHOOSE y \in {(
    (CHOOSE y \in {(
    (CHOOSE y \in {(
    (CHOOSE y \in {(
    (CHOOSE y \in {(
    (CHOOSE y \in {(
    (CHOOSE y \in {(
    IF d1.k = "Ok" /\ start_time.k = "Panic" THEN Panic
        ELSE IF e.k = "Ok" /\ stop_time.k = "Panic" THEN Panic
        ELSE IF stop_time.k # "Ok" THEN Err
        ELSE Ok([start_time |-> start_time.v, stop_time |-> stop_time.v], e.rest)
    ) : stop_time \in {IF e.k = "Ok" THEN U64FromStr(d2.v) ELSE Err}} : TRUE)
    ) : e \in {IF d2.k = "Ok" THEN LineEnding(d2.rest) ELSE Err}} : TRUE)
    ) : d2 \in {IF sp.k = "Ok" THEN Digit1(sp.rest) ELSE Err}} : TRUE)
    ) : sp \in {IF start_time.k = "Ok" THEN Tag(<<" ">>, d1.rest) ELSE Err}} : TRUE)
    ) : start_time \in {IF d1.k = "Ok" THEN U64FromStr(d1.v) ELSE Err}} : TRUE)
    ) : d1 \in {IF t.k = "Ok" THEN Digit1(t.rest) ELSE Err}} : TRUE)
    ) : t \in {Tag(<<"t", "=">>, input)}} : TRUE)

\* time_description.rs: Display for Repeat
RepeatDisplay(r) ==
    <<"r", "=">> \o r.interval \o <<" ">> \o r.active_duration
        \o Flatten([i \in 1..Len(r.offsets) |-> <<" ">> \o r.offsets[i]])
        \o CRLF

\* time_description.rs: fn offset, under many0: the offsets and the rest
RECURSIVE repeat_offsets(_)
repeat_offsets(input) ==
    (CHOOSE y \in {(
    (CHOOSE y \in {(
    IF d.k # "Ok" THEN Ok(<<>>, input)
        ELSE (CHOOSE y \in {(
             IF n.k # "Ok" THEN Panic
                 ELSE (CHOOSE y \in {(
                      IF more.k # "Ok" THEN more
                          ELSE Ok(<<n.v>> \o more.v, more.rest)
                 ) : more \in {repeat_offsets(d.rest)}} : TRUE)
        ) : n \in {U64FromStr(d.v)}} : TRUE)
    ) : d \in {IF sp.k = "Ok" THEN Digit1(sp.rest) ELSE Err}} : TRUE)
    ) : sp \in {Tag(<<" ">>, input)}} : TRUE)

\* time_description.rs: fn repeat
repeat(input) ==
    (CHOOSE y \in {(
    (CHOOSE y \in {(
    (CHOOSE y \in {(
    (CHOOSE y \in {(
    (CHOOSE y \in {(
    (CHOOSE y \in {(
    (CHOOSE y \in {(
    (CHOOSE y \in {(
    IF d1.k = "Ok" /\ interval.k = "Panic" THEN Panic
        ELSE IF d2.k = "Ok" /\ active_duration.k = "Panic" THEN Panic
        ELSE IF active_duration.k = "Ok" /\ offsets.k = "Panic" THEN Panic
        ELSE IF e.k # "Ok" THEN Err
        ELSE Ok([interval |-> interval.v,
                 active_duration |-> active_duration.v,
                 offsets |-> offsets.v],
                e.rest)
    ) : e \in {IF offsets.k = "Ok" /\ offsets.v # <<>>    \* many1
         THEN LineEnding(offsets.rest) ELSE Err}} : TRUE)
    ) : offsets \in {IF active_duration.k = "Ok" THEN repeat_offsets(d2.rest) ELSE Err}} : TRUE)
    ) : active_duration \in {IF d2.k = "Ok" THEN U64FromStr(d2.v) ELSE Err}} : TRUE)
    ) : d2 \in {IF sp.k = "Ok" THEN Digit1(sp.rest) ELSE Err}} : TRUE)
    ) : sp \in {IF interval.k = "Ok" THEN Tag(<<" ">>, d1.rest) ELSE Err}} : TRUE)
    ) : interval \in {IF d1.k = "Ok" THEN U64FromStr(d1.v) ELSE Err}} : TRUE)
    ) : d1 \in {IF t.k = "Ok" THEN Digit1(t.rest) ELSE Err}} : TRUE)
    ) : t \in {Tag(<<"r", "=">>, input)}} : TRUE)

\* i64 division, which truncates toward zero
TruncDiv(a, b) == IF a >= 0 THEN a \div b ELSE -((-a) \div b)

\* Display of an i64
IntToString(n) == IF n < 0 THEN <<"-">> \o NatToString(-n) ELSE NatToString(n)

\* time_zone.rs: Display for Adjustment
AdjustmentDisplay(a) ==
    (CHOOSE y \in {(
    (CHOOSE y \in {(
    a.time \o <<" ">> \o IntToString(offset_hours) \o units
    ) : units \in {IF offset_hours = 0 THEN <<>> ELSE <<"h">>}} : TRUE)
    ) : offset_hours \in {TruncDiv(a.offset, 3600)}} : TRUE)

\* i64::MAX = 9223372036854775807, the largest magnitude the text may spell
\* (one more behind a minus sign)
I64Max ==
    <<"9", "2", "2", "3", "3", "7", "2", "0", "3", "6", "8", "5", "4", "7",
      "7", "5", "8", "0", "7">>
I64MinMagnitude ==
    <<"9", "2", "2", "3", "3", "7", "2", "0", "3", "6", "8", "5", "4", "7",
      "7", "5", "8", "0", "8">>

\* the largest magnitudes whose product with 86400, 3600 and 60 is an i64
I64MaxDays == <<"1", "0", "6", "7", "5", "1", "9", "9", "1", "1", "6", "7", "3", "0", "0">>
I64MaxHours == <<"2", "5", "6", "2", "0", "4", "7", "7", "8", "8", "0", "1", "5", "2", "1", "5">>
I64MaxMinutes == <<"1", "5", "3", "7", "2", "2", "8", "6", "7", "2", "8", "0", "9", "1", "2", "9", "3", "0">>

\* `offset *= ..` leaves the range of i64: the panic of a build with overflow
\* checks; a build without them goes on with the wrapped product
MulOverflow ==
    [k |-> "Panic", v |-> <<"attempt to multiply with overflow">>, rest |-> <<>>]

\* time_zone.rs: fn offset
time_zone_offset(input) ==
    (CHOOSE y \in {(
    (CHOOSE y \in {(
    IF d.k # "Ok" THEN Err
        ELSE (CHOOSE y \in {(
             (CHOOSE y \in {(
             (CHOOSE y \in {(
             (CHOOSE y \in {(
             (CHOOSE y \in {(
             (CHOOSE y \in {(
             IF ~fits THEN Panic                   \* from_str_radix(..).unwrap()
                 ELSE IF factor # 1
                         /\ (Len(c) > Len(product_limit)
                               \/ (Len(c) = Len(product_limit)
                                     /\ ~DigitsLeq(c, product_limit)))
                 THEN MulOverflow
                 ELSE Ok((IF sign = <<"-">> THEN -DigitsValue(c) ELSE DigitsValue(c))
                            * factor,
                         Drop(d.rest, Len(units)))
             ) : product_limit \in {CASE units = <<"d">> -> I64MaxDays
                  [] units = <<"h">> -> I64MaxHours
                  [] OTHER -> I64MaxMinutes}} : TRUE)
             ) : factor \in {CASE units = <<"d">> -> 86400
                  [] units = <<"h">> -> 3600
                  [] units = <<"m">> -> 60
                  [] OTHER -> 1}} : TRUE)
             ) : fits \in {Len(c) < Len(limit)
                  \/ (Len(c) = Len(limit) /\ DigitsLeq(c, limit))}} : TRUE)
             ) : limit \in {IF sign = <<"-">> THEN I64MinMagnitude ELSE I64Max}} : TRUE)
             ) : c \in {Canonical(d.v)}} : TRUE)
        ) : units \in {IF d.rest # <<>> /\ d.rest[1] \in {"d", "h", "m", "s"}
                  THEN <<d.rest[1]>> ELSE <<>>}} : TRUE)
    ) : d \in {Digit1(Drop(input, Len(sign)))}} : TRUE)
    ) : sign \in {IF input # <<>> /\ input[1] \in {"+", "-"} THEN <<input[1]>> ELSE <<>>}} : TRUE)

\* time_zone.rs: fn adjustment
adjustment(input) ==
    (CHOOSE y \in {(
    (CHOOSE y \in {(
    (CHOOSE y \in {(
    IF off.k # "Ok" THEN off
        ELSE (CHOOSE y \in {(
             IF time.k # "Ok" THEN Panic
                 ELSE Ok([time |-> time.v, offset |-> off.v], off.rest)
        ) : time \in {U64FromStr(d.v)}} : TRUE)
    ) : off \in {IF sp.k = "Ok" THEN time_zone_offset(sp.rest) ELSE Err}} : TRUE)
    ) : sp \in {IF d.k = "Ok" THEN Tag(<<" ">>, d.rest) ELSE Err}} : TRUE)
    ) : d \in {Digit1(input)}} : TRUE)

\* time_zone.rs: Display for TimeZone; an empty list makes fmt fail, and
\* to_string panics on that
TimeZoneDisplay(z) ==
    IF z.adjustments = <<>> THEN Panic
    ELSE Ok(<<"z", "=">> \o AdjustmentDisplay(z.adjustments[1])
              \o Flatten([i \in 1..(Len(z.adjustments) - 1) |->
                             <<" ">> \o AdjustmentDisplay(z.adjustments[i + 1])])
              \o CRLF,
            <<>>)

\* many0(terminated(adjustment, alt((tag(" "), line_ending))))
RECURSIVE adjustments_many0(_)
adjustments_many0(input) ==
    (CHOOSE y \in {(
    IF a.k = "Panic" THEN a
        ELSE IF a.k = "Err" THEN Ok(<<>>, input)
        ELSE (CHOOSE y \in {(
             (CHOOSE y \in {(
             IF t.k # "Ok" THEN Ok(<<>>, input)
                 ELSE (CHOOSE y \in {(
                      IF more.k # "Ok" THEN more
                          ELSE Ok(<<a.v>> \o more.v, more.rest)
                 ) : more \in {adjustments_many0(t.rest)}} : TRUE)
             ) : t \in {IF sp.k = "Ok" THEN sp ELSE LineEnding(a.rest)}} : TRUE)
        ) : sp \in {Tag(<<" ">>, a.rest)}} : TRUE)
    ) : a \in {adjustment(input)}} : TRUE)

\* time_zone.rs: fn time_zone
time_zone(input) ==
    (CHOOSE y \in {(
    IF t.k # "Ok" THEN Err
        ELSE (CHOOSE y \in {(
             IF r.k = "Panic" THEN r
                 ELSE IF r.v = <<>> THEN Err              \* many1
                 ELSE Ok([adjustments |-> r.v], r.rest)
        ) : r \in {adjustments_many0(t.rest)}} : TRUE)
    ) : t \in {Tag(<<"z", "=">>, input)}} : TRUE)

\* encryption_key.rs: enum RetrievalMethod and its Display
RetrievalMethods == {"base64", "clear", "prompt", "uri"}
RetrievalMethodDisplay(m) ==
    CASE m = "base64" -> <<"b", "a", "s", "e", "6", "4">>
      [] m = "clear" -> <<"c", "l", "e", "a", "r">>
      [] m = "prompt" -> <<"p", "r", "o", "m", "p", "t">>
      [] m = "uri" -> <<"u", "r", "i">>

\* encryption_key.rs: Display for EncryptionKey; data is <<>> for None and
\* <<text>> for Some(text)
EncryptionKeyDisplay(e) ==
    <<"k", "=">> \o RetrievalMethodDisplay(e.method)
        \o (IF e.data = <<>> THEN <<>> ELSE <<":">> \o e.data[1])
        \o CRLF

\* encryption_key.rs: fn encryption_key
encryption_key(input) ==
    (CHOOSE y \in {(    \* alt((tag("base64"), tag("clear"), tag("prompt"), tag("uri")))
    (CHOOSE y \in {(
    IF method = <<>> THEN Err
        ELSE (CHOOSE y \in {(
             (CHOOSE y \in {(
             (CHOOSE y \in {(
             (CHOOSE y \in {(
             (CHOOSE y \in {(
             IF e.k # "Ok" THEN Err
                 ELSE Ok([method |-> method[1], data |-> data_opt.v], e.rest)
             ) : e \in {LineEnding(data_opt.rest)}} : TRUE)
             ) : data_opt \in {Opt(text, after)}} : TRUE)
             ) : text \in {IF colon.k = "Ok" THEN NotLineEnding(colon.rest) ELSE Err}} : TRUE)
             ) : colon \in {Tag(<<":">>, after)}} : TRUE)
        ) : after \in {Drop(t.rest, Len(RetrievalMethodDisplay(method[1])))}} : TRUE)
    ) : method \in {IF t.k # "Ok" THEN <<>>
         ELSE IF IsPrefix(RetrievalMethodDisplay("base64"), t.rest) THEN <<"base64">>
         ELSE IF IsPrefix(RetrievalMethodDisplay("clear"), t.rest) THEN <<"clear">>
         ELSE IF IsPrefix(RetrievalMethodDisplay("prompt"), t.rest) THEN <<"prompt">>
         ELSE IF IsPrefix(RetrievalMethodDisplay("uri"), t.rest) THEN <<"uri">>
         ELSE <<>>}} : TRUE)
    ) : t \in {Tag(<<"k", "=">>, input)}} : TRUE)

\* attribute.rs: enum Attribute
Property(q) == [t |-> "Property", p |-> q]
Value(key, val) == [t |-> "Value", k |-> key, v |-> val]

\* attribute.rs: Display for Attribute
AttributeDisplay(a) ==
    IF a.t = "Property" THEN <<"a", "=">> \o a.p \o CRLF
    ELSE <<"a", "=">> \o a.k \o <<":">> \o a.v \o CRLF

\* attribute.rs: fn property_attribute
property_attribute(input) ==
    (CHOOSE y \in {(
    IF r.k # "Ok" THEN Err ELSE Ok(Property(r.v), r.rest)
    ) : r \in {NotLineEnding(input)}} : TRUE)

\* attribute.rs: fn value_attribute
value_attribute(input) ==
    (CHOOSE y \in {(
    (CHOOSE y \in {(
    (CHOOSE y \in {(
    IF val.k # "Ok" THEN Err ELSE Ok(Value(key.v, val.v), val.rest)
    ) : val \in {IF colon.k = "Ok" THEN NotLineEnding(colon.rest) ELSE Err}} : TRUE)
    ) : colon \in {IF key.k = "Ok" THEN Tag(<<":">>, key.rest) ELSE Err}} : TRUE)
    ) : key \in {TakeTill1({":"} \cup Whitespace, input)}} : TRUE)

\* attribute.rs: fn attribute
sdp_attribute(input) ==
    (CHOOSE y \in {(
    IF t.k # "Ok" THEN Err
        ELSE (CHOOSE y \in {(
             (CHOOSE y \in {(
             (CHOOSE y \in {(
             IF e.k # "Ok" THEN Err ELSE Ok(a.v, e.rest)
             ) : e \in {IF a.k = "Ok" THEN LineEnding(a.rest) ELSE Err}} : TRUE)
             ) : a \in {IF first.k = "Ok" THEN first ELSE property_attribute(t.rest)}} : TRUE)
        ) : first \in {value_attribute(t.rest)}} : TRUE)
    ) : t \in {Tag(<<"a", "=">>, input)}} : TRUE)

\* media_description.rs: enum MediaType and its Display
MediaTypes == {"application", "audio", "message", "text", "video"}
MediaTypeDisplay(typ) ==
    CASE typ = "application" ->
            <<"a", "p", "p", "l", "i", "c", "a", "t", "i", "o", "n">>
      [] typ = "audio" -> <<"a", "u", "d", "i", "o">>
      [] typ = "message" -> <<"m", "e", "s", "s", "a", "g", "e">>
      [] typ = "text" -> <<"t", "e", "x", "t">>
      [] typ = "video" -> <<"v", "i", "d", "e", "o">>

\* media_description.rs: Display for Media
MediaDisplay(m) ==
    <<"m", "=">> \o MediaTypeDisplay(m.typ) \o <<" ">> \o m.port \o <<" ">>
        \o m.protocol \o <<" ">> \o m.format \o CRLF

\* media_description.rs: fn media
media(input) ==
    (CHOOSE y \in {(
    (CHOOSE y \in {(
    IF typ = <<>> THEN Err
        ELSE (CHOOSE y \in {(
             (CHOOSE y \in {(
             (CHOOSE y \in {(
             (CHOOSE y \in {(
             (CHOOSE y \in {(
             (CHOOSE y \in {(
             (CHOOSE y \in {(
             IF d.k = "Ok" /\ port.k = "Panic" THEN Panic
                 ELSE IF format.k # "Ok" THEN Err
                 ELSE Ok([typ |-> typ[1], port |-> port.v,
                          protocol |-> protocol.v, format |-> format.v],
                         format.rest)
             ) : format \in {IF protocol.k = "Ok"
                  THEN TagLine(<<" ">>, protocol.rest) ELSE Err}} : TRUE)
             ) : protocol \in {IF sp2.k = "Ok" THEN TakeTill1({" "}, sp2.rest) ELSE Err}} : TRUE)
             ) : sp2 \in {IF port.k = "Ok" THEN Tag(<<" ">>, d.rest) ELSE Err}} : TRUE)
             ) : port \in {IF d.k = "Ok" THEN U64FromStr(d.v) ELSE Err}} : TRUE)
             ) : d \in {IF sp1.k = "Ok" THEN Digit1(sp1.rest) ELSE Err}} : TRUE)
             ) : sp1 \in {Tag(<<" ">>, after)}} : TRUE)
        ) : after \in {Drop(t.rest, Len(MediaTypeDisplay(typ[1])))}} : TRUE)
    ) : typ \in {IF t.k # "Ok" THEN <<>>
         ELSE IF IsPrefix(MediaTypeDisplay("application"), t.rest) THEN <<"application">>
         ELSE IF IsPrefix(MediaTypeDisplay("audio"), t.rest) THEN <<"audio">>
         ELSE IF IsPrefix(MediaTypeDisplay("message"), t.rest) THEN <<"message">>
         ELSE IF IsPrefix(MediaTypeDisplay("text"), t.rest) THEN <<"text">>
         ELSE IF IsPrefix(MediaTypeDisplay("video"), t.rest) THEN <<"video">>
         ELSE <<>>}} : TRUE)
    ) : t \in {Tag(<<"m", "=">>, input)}} : TRUE)

\* the line parsers handed to many0 in time_description.rs,
\* media_description.rs and session_description.rs
LineParser(kind, input) ==
    CASE kind = "email_address" -> email_address(input)
      [] kind = "phone_number" -> phone_number(input)
      [] kind = "bandwidth" -> bandwidth(input)
      [] kind = "repeat" -> repeat(input)
      [] kind = "attribute" -> sdp_attribute(input)

\* nom's many0 over one of these parsers: collects until the parser fails
RECURSIVE Many0(_, _)
Many0(kind, input) ==
    (CHOOSE y \in {(
    IF r.k = "Panic" THEN Panic
        ELSE IF r.k = "Err" THEN Ok(<<>>, input)
        ELSE (CHOOSE y \in {(
             IF more.k # "Ok" THEN more
                 ELSE Ok(<<r.v>> \o more.v, more.rest)
        ) : more \in {Many0(kind, r.rest)}} : TRUE)
    ) : r \in {LineParser(kind, input)}} : TRUE)

\* time_description.rs: Display for TimeDescription
TimeDescriptionDisplay(t) ==
    TimingDisplay(t.timing)
        \o Flatten([i \in 1..Len(t.repeat_times) |-> RepeatDisplay(t.repeat_times[i])])

\* time_description.rs: fn time_description
time_description(input) ==
    (CHOOSE y \in {(
    IF t.k # "Ok" THEN t
        ELSE (CHOOSE y \in {(
             IF r.k # "Ok" THEN r
                 ELSE Ok([timing |-> t.v, repeat_times |-> r.v], r.rest)
        ) : r \in {Many0("repeat", t.rest)}} : TRUE)
    ) : t \in {timing(input)}} : TRUE)

\* media_description.rs: MediaDescription::base and the with_ builders
MediaDescriptionBase(m) ==
    [media |-> m, title |-> <<>>, connection |-> <<>>, bandwidths |-> <<>>,
     encryption_key |-> <<>>, attributes |-> <<>>]

\* media_description.rs: Display for MediaDescription
MediaDescriptionDisplay(m) ==
    MediaDisplay(m.media)
        \o (IF m.title = <<>> THEN <<>> ELSE SessionInformationDisplay(m.title[1]))
        \o (IF m.connection = <<>> THEN <<>> ELSE ConnectionDisplay(m.connection[1]))
        \o Flatten([i \in 1..Len(m.bandwidths) |-> BandwidthDisplay(m.bandwidths[i])])
        \o (IF m.encryption_key = <<>> THEN <<>>
            ELSE EncryptionKeyDisplay(m.encryption_key[1]))
        \o Flatten([i \in 1..Len(m.attributes) |-> AttributeDisplay(m.attributes[i])])

\* media_description.rs: fn media_description
media_description(input) ==
    (CHOOSE y \in {(
    IF m.k # "Ok" THEN m
        ELSE
        (CHOOSE y \in {(
        (CHOOSE y \in {(
        (CHOOSE y \in {(
        IF bws.k # "Ok" THEN bws
            ELSE
            (CHOOSE y \in {(
            (CHOOSE y \in {(
            Ok([media |-> m.v, title |-> title.v, connection |-> conn.v,
                    bandwidths |-> bws.v, encryption_key |-> key.v,
                    attributes |-> attrs.v],
                   attrs.rest)
            ) : attrs \in {Many0("attribute", key.rest)}} : TRUE)
            ) : key \in {Opt(encryption_key(bws.rest), bws.rest)}} : TRUE)
        ) : bws \in {Many0("bandwidth", conn.rest)}} : TRUE)
        ) : conn \in {Opt(connection(title.rest), title.rest)}} : TRUE)
        ) : title \in {Opt(session_information(m.rest), m.rest)}} : TRUE)
    ) : m \in {media(input)}} : TRUE)

\* many0(media_description)
RECURSIVE media_descriptions_many0(_)
media_descriptions_many0(input) ==
    (CHOOSE y \in {(
    IF r.k = "Panic" THEN Panic
        ELSE IF r.k = "Err" THEN Ok(<<>>, input)
        ELSE (CHOOSE y \in {(
             IF more.k # "Ok" THEN more
                 ELSE Ok(<<r.v>> \o more.v, more.rest)
        ) : more \in {media_descriptions_many0(r.rest)}} : TRUE)
    ) : r \in {media_description(input)}} : TRUE)

\* session_description.rs: SessionDescription::base and the with_ builders
SessionDescriptionBase(v, o, s, t) ==
    [version |-> v, origin |-> o, session_name |-> s,
     session_information |-> <<>>, uri |-> <<>>, email_addresses |-> <<>>,
     phone_numbers |-> <<>>, connection |-> <<>>, bandwidths |-> <<>>,
     time_description |-> t, time_zone |-> <<>>, encryption_key |-> <<>>,
     attributes |-> <<>>, media_descriptions |-> <<>>]

\* session_description.rs: Display for SessionDescription, as to_string()
\* calls it: a failing fmt of the time zone makes to_string panic
SessionDescriptionDisplay(d) ==
    (CHOOSE y \in {(
    IF z.k # "Ok" THEN Panic
        ELSE Ok(
            VersionDisplay(d.version)
            \o OriginDisplay(d.origin)
            \o SessionNameDisplay(d.session_name)
            \o (IF d.session_information = <<>> THEN <<>>
                ELSE SessionInformationDisplay(d.session_information[1]))
            \o (IF d.uri = <<>> THEN <<>> ELSE URIDisplay(d.uri[1]))
            \o Flatten([i \in 1..Len(d.email_addresses) |->
                           EmailAddressDisplay(d.email_addresses[i])])
            \o Flatten([i \in 1..Len(d.phone_numbers) |->
                           PhoneNumberDisplay(d.phone_numbers[i])])
            \o (IF d.connection = <<>> THEN <<>> ELSE ConnectionDisplay(d.connection[1]))
            \o Flatten([i \in 1..Len(d.bandwidths) |-> BandwidthDisplay(d.bandwidths[i])])
            \o TimeDescriptionDisplay(d.time_description)
            \o z.v
            \o (IF d.encryption_key = <<>> THEN <<>>
                ELSE EncryptionKeyDisplay(d.encryption_key[1]))
            \o Flatten([i \in 1..Len(d.attributes) |-> AttributeDisplay(d.attributes[i])])
            \o Flatten([i \in 1..Len(d.media_descriptions) |->
                           MediaDescriptionDisplay(d.media_descriptions[i])]),
            <<>>)
    ) : z \in {IF d.time_zone = <<>> THEN Ok(<<>>, <<>>)
         ELSE TimeZoneDisplay(d.time_zone[1])}} : TRUE)

\* session_description.rs: fn session_description
session_description(input) ==
    (CHOOSE y \in {(
    IF v.k # "Ok" THEN v ELSE
    (CHOOSE y \in {(
    IF o.k # "Ok" THEN o ELSE
    (CHOOSE y \in {(
    IF s.k # "Ok" THEN s ELSE
    (CHOOSE y \in {(
    (CHOOSE y \in {(
    (CHOOSE y \in {(
    (CHOOSE y \in {(
    (CHOOSE y \in {(
    (CHOOSE y \in {(
    IF bws.k # "Ok" THEN bws ELSE
    (CHOOSE y \in {(
    IF t.k # "Ok" THEN t ELSE
    (CHOOSE y \in {(
    IF z.k # "Ok" THEN z ELSE
    (CHOOSE y \in {(
    (CHOOSE y \in {(
    (CHOOSE y \in {(
    IF medias.k # "Ok" THEN medias
        ELSE Ok([version |-> v.v, origin |-> o.v, session_name |-> s.v,
                 session_information |-> info.v, uri |-> u.v,
                 email_addresses |-> emails.v, phone_numbers |-> phones.v,
                 connection |-> conn.v, bandwidths |-> bws.v,
                 time_description |-> t.v, time_zone |-> z.v,
                 encryption_key |-> key.v, attributes |-> attrs.v,
                 media_descriptions |-> medias.v],
                medias.rest)
    ) : medias \in {media_descriptions_many0(attrs.rest)}} : TRUE)
    ) : attrs \in {Many0("attribute", key.rest)}} : TRUE)
    ) : key \in {Opt(encryption_key(z.rest), z.rest)}} : TRUE)
    ) : z \in {Opt(time_zone(t.rest), t.rest)}} : TRUE)
    ) : t \in {time_description(bws.rest)}} : TRUE)
    ) : bws \in {Many0("bandwidth", conn.rest)}} : TRUE)
    ) : conn \in {Opt(connection(phones.rest), phones.rest)}} : TRUE)
    ) : phones \in {Many0("phone_number", emails.rest)}} : TRUE)
    ) : emails \in {Many0("email_address", u.rest)}} : TRUE)
    ) : u \in {Opt(uri(info.rest), info.rest)}} : TRUE)
    ) : info \in {Opt(session_information(s.rest), s.rest)}} : TRUE)
    ) : s \in {session_name(o.rest)}} : TRUE)
    ) : o \in {origin(v.rest)}} : TRUE)
    ) : v \in {version(input)}} : TRUE)

\* lib.rs (sdp): the error from_str returns
InvalidSessionDescription == [k |-> "Err", v |-> "InvalidSessionDescription", rest |-> <<>>]

\* session_description.rs: SessionDescription::from_str
from_str(input) ==
    (CHOOSE y \in {(
    IF r.k = "Panic" THEN Panic
        ELSE IF r.k = "Err" THEN InvalidSessionDescription
        ELSE IF r.rest # <<>> THEN InvalidSessionDescription    \* all_consuming
        ELSE Ok(r.v, <<>>)
    ) : r \in {session_description(input)}} : TRUE)

\* ============================================== ice: candidate grammar
LowerAlpha ==
    {"a", "b", "c", "d", "e", "f", "g", "h", "i", "j", "k", "l", "m",
     "n", "o", "p", "q", "r", "s", "t", "u", "v", "w", "x", "y", "z"}
UpperAlpha ==
    {"A", "B", "C", "D", "E", "F", "G", "H", "I", "J", "K", "L", "M",
     "N", "O", "P", "Q", "R", "S", "T", "U", "V", "W", "X", "Y", "Z"}

\* ice lib.rs: const ICE_CHARS
ICE_CHARS == LowerAlpha \cup UpperAlpha \cup Digits \cup {"+", "/"}

\* ice lib.rs: the errors of the candidate parser
InvalidCandidate == [k |-> "Err", v |-> <<"InvalidCandidate">>, rest |-> <<>>]
UnsupportedCandidateType(token) ==
    [k |-> "Err", v |-> <<"UnsupportedCandidateType", token>>, rest |-> <<>>]
UnsupportedTransport(token) ==
    [k |-> "Err", v |-> <<"UnsupportedTransport", token>>, rest |-> <<>>]

\* nom char(c)
Char(c, input) ==
    IF input # <<>> /\ input[1] = c THEN Ok(c, Tail(input)) ELSE Err

\* ice lib.rs: fn foundation
foundation(input) ==
    (CHOOSE y \in {(
    (CHOOSE y \in {(    \* many_m_n(1, 32, ..)
    (CHOOSE y \in {(
    IF sp.k # "Ok" THEN Err ELSE Ok(Take(input, n), sp.rest)
    ) : sp \in {IF n >= 1 THEN Char(" ", Drop(input, n)) ELSE Err}} : TRUE)
    ) : n \in {IF all > 32 THEN 32 ELSE all}} : TRUE)
    ) : all \in {PrefixLen(input, ICE_CHARS)}} : TRUE)

\* str::parse for an unsigned integer whose largest value is spelled max: the
\* result is the decimal text of the number
UnsignedFromStr(digits, max) ==
    (CHOOSE y \in {(
    IF Len(c) < Len(max) \/ (Len(c) = Len(max) /\ DigitsLeq(c, max))
        THEN Ok(c, <<>>)
        ELSE Err
    ) : c \in {Canonical(digits)}} : TRUE)

U16Max == <<"6", "5", "5", "3", "5">>
U32Max == <<"4", "2", "9", "4", "9", "6", "7", "2", "9", "5">>

\* recognize(many_m_n(1, 5, digit1)) and the like: the first digit1 takes
\* every digit there is, so the upper count never limits the match
DigitRun(input) == Digit1(input)

\* ice lib.rs: fn component_id
component_id(input) ==
    (CHOOSE y \in {(
    (CHOOSE y \in {(
    (CHOOSE y \in {(
    IF id.k # "Ok" THEN Err ELSE Ok(DigitsValue(id.v), sp.rest)
    ) : id \in {IF sp.k = "Ok" THEN UnsignedFromStr(d.v, U16Max) ELSE Err}} : TRUE)
    ) : sp \in {IF d.k = "Ok" THEN Char(" ", d.rest) ELSE Err}} : TRUE)
    ) : d \in {DigitRun(input)}} : TRUE)

\* ice lib.rs: fn token
TokenChars ==
    LowerAlpha \cup UpperAlpha \cup Digits
        \cup {"-", ".", "!", "%", "*", "_", "+", "`", "'", "~"}
token(input) ==
    (CHOOSE y \in {(
    IF n = 0 THEN Err ELSE Ok(Take(input, n), Drop(input, n))
    ) : n \in {PrefixLen(input, TokenChars)}} : TRUE)

\* ice lib.rs: impl FromStr for Transport
TransportFromStr(t) ==
    IF t = <<"u", "d", "p">> \/ t = <<"U", "D", "P">> THEN Ok("Udp", <<>>)
    ELSE IF t = <<"t", "c", "p">> \/ t = <<"T", "C", "P">> THEN Ok("Tcp", <<>>)
    ELSE UnsupportedTransport(t)

\* ice lib.rs: fn transport; map_res keeps no part of the error its closure
\* returns
transport(input) ==
    (CHOOSE y \in {(
    (CHOOSE y \in {(
    (CHOOSE y \in {(
    IF parsed.k # "Ok" THEN Err ELSE Ok(parsed.v, sp.rest)
    ) : parsed \in {IF sp.k = "Ok" THEN TransportFromStr(t.v) ELSE Err}} : TRUE)
    ) : sp \in {IF t.k = "Ok" THEN Char(" ", t.rest) ELSE Err}} : TRUE)
    ) : t \in {token(input)}} : TRUE)

\* ice lib.rs: fn priority
candidate_priority(input) ==
    (CHOOSE y \in {(
    (CHOOSE y \in {(
    (CHOOSE y \in {(
    IF n.k # "Ok" THEN Err ELSE Ok(n.v, sp.rest)
    ) : n \in {IF sp.k = "Ok" THEN UnsignedFromStr(d.v, U32Max) ELSE Err}} : TRUE)
    ) : sp \in {IF d.k = "Ok" THEN Char(" ", d.rest) ELSE Err}} : TRUE)
    ) : d \in {DigitRun(input)}} : TRUE)

\* one decimal octet as Ipv4Addr::from_str reads it: at most three digits,
\* at most 255, no leading zero
OctetFromStr(digits) ==
    IF Len(digits) <= 3 /\ Canonical(digits) = digits /\ DigitsValue(digits) <= 255
    THEN Ok(DigitsValue(digits), <<>>)
    ELSE Err

\* terminated(digit1, char('.'))
DottedOctet(input) ==
    (CHOOSE y \in {(
    (CHOOSE y \in {(
    IF dot.k # "Ok" THEN Err ELSE Ok(d.v, dot.rest)
    ) : dot \in {IF d.k = "Ok" THEN Char(".", d.rest) ELSE Err}} : TRUE)
    ) : d \in {Digit1(input)}} : TRUE)

\* ice lib.rs: fn ipv4_address
ipv4_address(input) ==
    (CHOOSE y \in {(
    (CHOOSE y \in {(
    (CHOOSE y \in {(
    (CHOOSE y \in {(
    IF d.k # "Ok" THEN Err
        ELSE (CHOOSE y \in {(
             (CHOOSE y \in {(
             (CHOOSE y \in {(
             (CHOOSE y \in {(
             IF o1.k # "Ok" \/ o2.k # "Ok" \/ o3.k # "Ok" \/ o4.k # "Ok" THEN Err
                 ELSE Ok(<<o1.v, o2.v, o3.v, o4.v>>, d.rest)
             ) : o4 \in {OctetFromStr(d.v)}} : TRUE)
             ) : o3 \in {OctetFromStr(c.v)}} : TRUE)
             ) : o2 \in {OctetFromStr(b.v)}} : TRUE)
        ) : o1 \in {OctetFromStr(a.v)}} : TRUE)
    ) : d \in {IF c.k = "Ok" THEN Digit1(c.rest) ELSE Err}} : TRUE)
    ) : c \in {IF b.k = "Ok" THEN DottedOctet(b.rest) ELSE Err}} : TRUE)
    ) : b \in {IF a.k = "Ok" THEN DottedOctet(a.rest) ELSE Err}} : TRUE)
    ) : a \in {DottedOctet(input)}} : TRUE)

\* ice lib.rs: fn port
candidate_port(input) ==
    (CHOOSE y \in {(
    (CHOOSE y \in {(
    IF n.k # "Ok" THEN Err ELSE Ok(DigitsValue(n.v), d.rest)
    ) : n \in {IF d.k = "Ok" THEN UnsignedFromStr(d.v, U16Max) ELSE Err}} : TRUE)
    ) : d \in {DigitRun(input)}} : TRUE)

\* a SocketAddr: the pair of an address and a port
SocketAddr(ip, p) == <<ip, p>>

\* ice lib.rs: fn connection_address_and_port
connection_address_and_port(input) ==
    (CHOOSE y \in {(
    (CHOOSE y \in {(
    (CHOOSE y \in {(
    (CHOOSE y \in {(
    IF sp2.k # "Ok" THEN Err ELSE Ok(SocketAddr(ip.v, p.v), sp2.rest)
    ) : sp2 \in {IF p.k = "Ok" THEN Char(" ", p.rest) ELSE Err}} : TRUE)
    ) : p \in {IF sp1.k = "Ok" THEN candidate_port(sp1.rest) ELSE Err}} : TRUE)
    ) : sp1 \in {IF ip.k = "Ok" THEN Char(" ", ip.rest) ELSE Err}} : TRUE)
    ) : ip \in {ipv4_address(input)}} : TRUE)

\* mutant: host is read as a relayed candidate
CandidateTypeFromStrHostRelayed(t) ==
    IF t = <<"h", "o", "s", "t">> THEN Ok("Relayed", <<>>)
    ELSE IF t = <<"s", "r", "f", "l", "x">> THEN Ok("ServerReflexive", <<>>)
    ELSE IF t = <<"r", "e", "l", "a", "y">> THEN Ok("Relayed", <<>>)
    ELSE IF t = <<"p", "r", "f", "l", "x">> THEN Ok("PeerReflexive", <<>>)
    ELSE UnsupportedCandidateType(t)

\* ice lib.rs: impl FromStr for CandidateType
CandidateTypeFromStr(t) ==
    IF t = <<"h", "o", "s", "t">> THEN Ok("Host", <<>>)
    ELSE IF t = <<"s", "r", "f", "l", "x">> THEN Ok("ServerReflexive", <<>>)
    ELSE IF t = <<"r", "e", "l", "a", "y">> THEN Ok("Relayed", <<>>)
    ELSE IF t = <<"p", "r", "f", "l", "x">> THEN Ok("PeerReflexive", <<>>)
    ELSE UnsupportedCandidateType(t)

\* ice lib.rs: fn candidate_type
candidate_type(input) ==
    (CHOOSE y \in {(
    (CHOOSE y \in {(
    (CHOOSE y \in {(
    IF parsed.k # "Ok" THEN Err ELSE Ok(parsed.v, t.rest)
    ) : parsed \in {IF t.k = "Ok" THEN CandidateTypeFromStr(t.v) ELSE Err}} : TRUE)
    ) : t \in {IF typ.k = "Ok" THEN token(typ.rest) ELSE Err}} : TRUE)
    ) : typ \in {Tag(<<"t", "y", "p", " ">>, input)}} : TRUE)

\* ice lib.rs: fn related_address_and_port
related_address_and_port(input) ==
    (CHOOSE y \in {(
    (CHOOSE y \in {(
    (CHOOSE y \in {(
    (CHOOSE y \in {(
    IF p.k # "Ok" THEN Err ELSE Ok(SocketAddr(ip.v, p.v), p.rest)
    ) : p \in {IF rport.k = "Ok" THEN candidate_port(rport.rest) ELSE Err}} : TRUE)
    ) : rport \in {IF ip.k = "Ok" THEN Tag(<<" ", "r", "p", "o", "r", "t", " ">>, ip.rest) ELSE Err}} : TRUE)
    ) : ip \in {IF raddr.k = "Ok" THEN ipv4_address(raddr.rest) ELSE Err}} : TRUE)
    ) : raddr \in {Tag(<<" ", "r", "a", "d", "d", "r", " ">>, input)}} : TRUE)

\* ice lib.rs: fn extension_attribute
extension_attribute(input) ==
    (CHOOSE y \in {(
    (CHOOSE y \in {(
    (CHOOSE y \in {(
    (CHOOSE y \in {(
    IF value.k # "Ok" THEN Err ELSE Ok(<<name.v, value.v>>, value.rest)
    ) : value \in {IF sp2.k = "Ok" THEN TakeTill1({" ", CR, LF}, sp2.rest) ELSE Err}} : TRUE)
    ) : sp2 \in {IF name.k = "Ok" THEN Char(" ", name.rest) ELSE Err}} : TRUE)
    ) : name \in {IF sp1.k = "Ok" THEN TakeTill1({" ", CR, LF}, sp1.rest) ELSE Err}} : TRUE)
    ) : sp1 \in {Char(" ", input)}} : TRUE)

\* many0(extension_attribute)
RECURSIVE extension_attributes_many0(_)
extension_attributes_many0(input) ==
    (CHOOSE y \in {(
    IF r.k # "Ok" THEN Ok(<<>>, input)
        ELSE (CHOOSE y \in {(
             Ok(<<r.v>> \o more.v, more.rest)
        ) : more \in {extension_attributes_many0(r.rest)}} : TRUE)
    ) : r \in {extension_attribute(input)}} : TRUE)

\* ice lib.rs: RemoteCandidate::from_tuple keeps args.4 and args.5
RemoteCandidate(address, ty) == [address |-> address, ty |-> ty]

\* ice lib.rs: fn candidate
candidate(input) ==
    (CHOOSE y \in {(
    (CHOOSE y \in {(
    (CHOOSE y \in {(
    (CHOOSE y \in {(
    (CHOOSE y \in {(
    (CHOOSE y \in {(
    IF ty.k # "Ok" THEN Err
        ELSE (CHOOSE y \in {(
             (CHOOSE y \in {(
             Ok(RemoteCandidate(a.v, ty.v), ext.rest)
             ) : ext \in {extension_attributes_many0(rel.rest)}} : TRUE)
        ) : rel \in {Opt(related_address_and_port(ty.rest), ty.rest)}} : TRUE)
    ) : ty \in {IF a.k = "Ok" THEN candidate_type(a.rest) ELSE Err}} : TRUE)
    ) : a \in {IF p.k = "Ok" THEN connection_address_and_port(p.rest) ELSE Err}} : TRUE)
    ) : p \in {IF t.k = "Ok" THEN candidate_priority(t.rest) ELSE Err}} : TRUE)
    ) : t \in {IF c.k = "Ok" THEN transport(c.rest) ELSE Err}} : TRUE)
    ) : c \in {IF f.k = "Ok" THEN component_id(f.rest) ELSE Err}} : TRUE)
    ) : f \in {foundation(input)}} : TRUE)

\* ice lib.rs: impl FromStr for RemoteCandidate
RemoteCandidateFromStr(input) ==
    (CHOOSE y \in {(
    IF r.k # "Ok" \/ r.rest # <<>> THEN InvalidCandidate   \* all_consuming
        ELSE Ok(r.v, <<>>)
    ) : r \in {candidate(input)}} : TRUE)

\* ice lib.rs: fn candidate_attribute
candidate_attribute(input) ==
    (CHOOSE y \in {(
    (CHOOSE y \in {(
    (CHOOSE y \in {(
    IF e.k # "Ok" THEN Err ELSE Ok(c.v, e.rest)
    ) : e \in {IF c.k = "Ok" THEN Tag(CRLF, c.rest) ELSE Err}} : TRUE)
    ) : c \in {IF t.k = "Ok" THEN candidate(t.rest) ELSE Err}} : TRUE)
    ) : t \in {Tag(<<"a", "=", "c", "a", "n", "d", "i", "d", "a", "t", "e", ":">>, input)}} : TRUE)

\* ice lib.rs: impl TryFrom<sdp::Attribute> for RemoteCandidate
RemoteCandidateTryFrom(a) ==
    (CHOOSE y \in {(
    IF r.k # "Ok" \/ r.rest # <<>> THEN InvalidCandidate   \* all_consuming
        ELSE Ok(r.v, <<>>)
    ) : r \in {candidate_attribute(AttributeDisplay(a))}} : TRUE)

\* Display of an Ipv4Addr
IpDisplay(ip) ==
    NatToString(ip[1]) \o <<".">> \o NatToString(ip[2]) \o <<".">>
        \o NatToString(ip[3]) \o <<".">> \o NatToString(ip[4])

\* encode_as_sdp without the candidate type at the end of the line
encode_as_sdp_without_type(f, address) ==
    Value(<<"c", "a", "n", "d", "i", "d", "a", "t", "e">>,
          NatToString(f) \o <<" ">> \o NatToString(1) \o <<" ">>
            \o <<"u", "d", "p">> \o <<" ">>
            \o NatToString((16777216 * 126) + (256 * 65535) + 256 - 1) \o <<" ">>
            \o IpDisplay(address[1]) \o <<" ">> \o NatToString(address[2]))

\* ice lib.rs: fn encode_as_sdp; the priority is
\* 2^24 * 126 + 2^8 * 65535 + 256 - 1
encode_as_sdp(f, address) ==
    Value(<<"c", "a", "n", "d", "i", "d", "a", "t", "e">>,
          NatToString(f) \o <<" ">> \o NatToString(1) \o <<" ">>
            \o <<"u", "d", "p">> \o <<" ">>
            \o NatToString((16777216 * 126) + (256 * 65535) + 256 - 1) \o <<" ">>
            \o IpDisplay(address[1]) \o <<" ">> \o NatToString(address[2])
            \o <<" ", "t", "y", "p", " ", "h", "o", "s", "t">>)

\* mutant: every candidate is given the foundation 0
candidate_attributes_same_foundation(a) ==
    [i \in 1..Len(a.local_candidates) |->
        encode_as_sdp(0, a.local_candidates[i].address)]

\* ice lib.rs: Agent::candidate_attributes; enumerate() counts from 0
candidate_attributes(a) ==
    [i \in 1..Len(a.local_candidates) |->
        encode_as_sdp(i - 1, a.local_candidates[i].address)]

\* ----------------------------------------------------- builder: inputs
TxIds == { [i \in 1..12 |-> 0], [i \in 1..12 |-> i] }
Knuth == <<107, 110, 117, 116, 104>>
Abcd == <<97, 98, 99, 100>>
Addr1 == <<192, 168, 0, 196>>
Keys == { <<112, 119, 100>>, <<107>> }
BuilderHeaders == { HeaderNew(c, x) : c \in {"Request", "Success"}, x \in TxIds }
BuilderAttrs == { Username(Knuth), Username(Abcd), XorMappedAddress(Addr1, 36768) }
BuilderVecs ==
    { <<>>, <<Username(Knuth)>>, <<Username(Abcd), XorMappedAddress(Addr1, 36768)>> }

\* ---------------------------------------------------- builder: actions
CodecIdle == /\ cin = <<>> /\ cop = "idle" /\ cout = <<>>

\* no agent has been created
NoTask ==
    [pc |-> "none", key |-> <<>>, local_addr |-> <<>>, req |-> <<>>,
     n |-> 0, src_addr |-> <<>>, reply |-> <<>>]

IceIdle ==
    /\ agent = [alive |-> FALSE, username |-> <<>>, password |-> <<>>,
                local_addrs |-> <<>>, local_candidates |-> <<>>,
                remote_candidates |-> <<>>, gather |-> "idle", next |-> 1]
    /\ task = NoTask
    /\ sent = <<>>
    /\ rcvd = 0

\* no peer connection has been created
NoPeerConnection ==
    [state |-> "none", remote_description |-> <<>>, local_description |-> <<>>,
     call |-> "none", arg |-> <<>>, returned |-> <<>>, gathers |-> 0,
     log |-> <<>>]

PcIdle == pc = NoPeerConnection

BuilderInit ==
    /\ \E h \in BuilderHeaders : msg = base(h)
    /\ lastOp = "base"
    /\ calls = 0

Base ==
    /\ \E h \in BuilderHeaders : msg' = base(h)
    /\ lastOp' = "base"
    /\ calls' = 0

WithAttributes ==
    /\ calls < MaxCalls
    /\ \E v \in BuilderVecs : msg' = with_attributes(msg, v)
    /\ lastOp' = "with_attributes"
    /\ calls' = calls + 1

AndAttribute ==
    /\ calls < MaxCalls
    /\ \E a \in BuilderAttrs : msg' = and_attribute(msg, a)
    /\ lastOp' = "and_attribute"
    /\ calls' = calls + 1

WithMessageIntegrity ==
    /\ calls < MaxCalls
    /\ \E k \in Keys : msg' = with_message_integrity(msg, k)
    /\ lastOp' = "with_message_integrity"
    /\ calls' = calls + 1

WithFingerprint ==
    /\ calls < MaxCalls
    /\ msg' = with_fingerprint(msg)
    /\ lastOp' = "with_fingerprint"
    /\ calls' = calls + 1

Init == BuilderInit /\ CodecIdle /\ IceIdle /\ PcIdle

Next ==
    \/ Base /\ UNCHANGED <<codecVars, iceVars, pcVars>>
    \/ WithAttributes /\ UNCHANGED <<codecVars, iceVars, pcVars>>
    \/ AndAttribute /\ UNCHANGED <<codecVars, iceVars, pcVars>>
    \/ WithMessageIntegrity /\ UNCHANGED <<codecVars, iceVars, pcVars>>
    \/ WithFingerprint /\ UNCHANGED <<codecVars, iceVars, pcVars>>

Spec == Init /\ [][Next]_vars

\* ------------------------------------------------------- builder: claims
Last(s) == s[Len(s)]

\* C1: for every message reachable from Message::base(h) by the builder
\* operations, header.length equals the number of bytes to_bytes emits for
\* the attribute section.
C1_LengthIsAttributeBytes == msg.header.length = AttributeSectionLen(msg)

\* C2: with_message_integrity adds exactly 24 to header.length and appends
\* one MessageIntegrity attribute last; after base(h).with_message_integrity(k)
\* the length is 24, and after
\* base(h).with_attributes([Username("knuth")]).with_message_integrity(k)
\* it is 36.
C2_MessageIntegrityLengths ==
    [][WithMessageIntegrity =>
        /\ msg'.header.length = msg.header.length + 24
        /\ Len(msg'.attributes) = Len(msg.attributes) + 1
        /\ Last(msg'.attributes).t = "MessageIntegrity"
        /\ (lastOp = "base" => msg'.header.length = 24)
        /\ (/\ lastOp = "with_attributes"
            /\ calls = 1
            /\ msg.attributes = <<Username(Knuth)>>
            => msg'.header.length = 36)]_vars

\* C3: with_fingerprint increases header.length by exactly 8 and appends
\* exactly one Fingerprint attribute whose serialized form is 8 bytes; the
\* attributes present before are unchanged.
C3_FingerprintAddsEight ==
    [][WithFingerprint =>
        /\ msg'.header.length = msg.header.length + 8
        /\ Len(msg'.attributes) = Len(msg.attributes) + 1
        /\ Last(msg'.attributes).t = "Fingerprint"
        /\ Len(AttrToBytes(Last(msg'.attributes))) = 8
        /\ Take(msg'.attributes, Len(msg.attributes)) = msg.attributes]_vars

\* FINGERPRINT, when present, is last; MESSAGE-INTEGRITY, when present, is
\* followed by nothing but FINGERPRINT.
OrderOK(m) ==
    \A i \in 1..Len(m.attributes) :
        /\ m.attributes[i].t = "Fingerprint" => i = Len(m.attributes)
        /\ m.attributes[i].t = "MessageIntegrity" =>
               \A j \in (i + 1)..Len(m.attributes) :
                   m.attributes[j].t = "Fingerprint"

HasAttr(m, t) == \E i \in 1..Len(m.attributes) : m.attributes[i].t = t

\* C4 (as claimed): in every message the builder produces, FINGERPRINT is
\* the last attribute and MESSAGE-INTEGRITY precedes it and follows every
\* other attribute, whatever the sequence of builder calls.
C4_OrderAlways == OrderOK(msg)

\* C4 (amended): with_message_integrity and with_fingerprint append at the
\* end of the list as it is when they are called: called on a message with
\* neither attribute, with_message_integrity leaves MESSAGE-INTEGRITY last;
\* called on an ordered message without FINGERPRINT, with_fingerprint leaves
\* FINGERPRINT last and the order intact.
C4_OrderWhenCalledInOrder ==
    [][/\ (/\ WithMessageIntegrity
           /\ ~HasAttr(msg, "MessageIntegrity")
           /\ ~HasAttr(msg, "Fingerprint")
           => /\ OrderOK(msg')
              /\ Last(msg'.attributes).t = "MessageIntegrity")
       /\ (/\ WithFingerprint
           /\ OrderOK(msg)
           /\ ~HasAttr(msg, "Fingerprint")
           => /\ OrderOK(msg')
              /\ Last(msg'.attributes).t = "Fingerprint")]_vars

\* C4 witness: base, with_attributes, with_message_integrity,
\* with_fingerprint has run and the message ends MESSAGE-INTEGRITY,
\* FINGERPRINT.
C4_Witness ==
    /\ lastOp = "with_fingerprint"
    /\ Len(msg.attributes) = 4
    /\ msg.attributes[1].t = "Username"
    /\ msg.attributes[3].t = "MessageIntegrity"
    /\ msg.attributes[4].t = "Fingerprint"

\* ------------------------------------------------------- codec: inputs
U32s == { <<0, 0, 0, 1>>, <<222, 173, 190, 239>> }
Mchlrhw == <<109, 99, 104, 108, 114, 104, 119>>

\* attributes of lib.rs's enum a message may hold besides the two
\* authentication attributes
CodecAttrs ==
    { Username(Knuth), Username(Abcd), XorMappedAddress(Addr1, 36768),
      Priority(<<0, 0, 0, 1>>), ComprehensionOptional(<<1, 2, 3, 4>>) }

RECURSIVE SeqsUpTo(_, _)
SeqsUpTo(S, n) ==
    IF n = 0 THEN {<<>>}
    ELSE LET shorter == SeqsUpTo(S, n - 1)
         IN  shorter \cup { Append(q, x) : q \in shorter, x \in S }

\* a message whose header.length is consistent with its attributes
CodecMessage(class, transaction_id, attributes) ==
    LET m == [header |-> HeaderNew(class, transaction_id),
              attributes |-> attributes]
    IN  IF \E i \in 1..Len(attributes) : AttrToBytesPanics(attributes[i])
        THEN m
        ELSE [m EXCEPT !.header.length = AttributeSectionLen(m)]

CodecMessages ==
    { CodecMessage(c, x, as) :
        c \in Classes, x \in TxIds, as \in SeqsUpTo(CodecAttrs, MaxMsgAttrs) }

\* IPv4 addresses (octets) and 16-bit ports, the extremes and the values
\* that meet the magic cookie among them
Ipv4s ==
    { <<0, 0, 0, 0>>, <<255, 255, 255, 255>>, <<33, 18, 164, 66>>,
      <<192, 168, 0, 196>>, <<10, 0, 0, 1>> }
Ports == { 0, 1, 255, 256, 8466, 36768, 65535 }

TlvAttrs ==
    { TlvComprehensionOptional(32768, <<1>>),
      TlvComprehensionOptional(32809, <<222, 173, 190, 239>>),
      TlvComprehensionOptional(49153, <<>>),
      TlvUsername(Knuth), TlvUsername(Abcd), TlvUsername(Mchlrhw),
      TlvMessageIntegrity([i \in 1..20 |-> i]),
      TlvUseCandidate }
        \cup { TlvXorMappedAddress(a, q) : a \in Ipv4s, q \in Ports }
        \cup { TlvFingerprint(v) : v \in U32s }
        \cup { TlvPriority(v) : v \in U32s }
        \cup { TlvErrorCode(c, r) : c \in {300, 401, 487, 508},
                                    r \in {<<>>, Knuth, Mchlrhw, Abcd} }

\* ------------------------------------------------------ codec: actions
BuilderIdle ==
    /\ msg = base(HeaderNew("Request", [i \in 1..12 |-> 0]))
    /\ lastOp = "base"
    /\ calls = 0

\* message(&m.to_bytes())
MessageRoundTrip ==
    /\ cop = "idle"
    /\ \E m \in CodecMessages :
        /\ cin' = m
        /\ cop' = "round_trip"
        /\ cout' = RoundTrip(m)

\* a.to_bytes() through the Tlv trait
AttributeToBytes ==
    /\ cop = "idle"
    /\ \E a \in TlvAttrs :
        /\ cin' = a
        /\ cop' = "tlv_to_bytes"
        /\ cout' = TlvToBytes(a)

\* bytes handed to the attribute parser: every serialized attribute, one
\* well-formed attribute of type 0x0025, and malformed ones
AttributeInputs ==
    { TlvToBytes(a) : a \in TlvAttrs }
      \cup { <<0, 37, 0, 0>>,
             <<0, 37, 0, 0, 0, 36, 0, 4, 110, 0, 30, 255>>,
             <<0, 1, 0, 8, 0, 1, 19, 136, 10, 0, 0, 1>>,
             <<0, 6, 0, 5, 107, 110, 117, 116, 104>>,
             <<0, 6, 0, 1, 255, 0, 0, 0>>,
             <<0, 36, 0, 2, 1, 2, 0, 0>>,
             <<0, 8, 0, 4, 1, 2, 3, 4>>,
             <<0, 9, 0, 4, 0, 0, 3, 99>>,
             <<0, 32, 0, 8, 0, 2, 0, 0, 0, 0, 0, 0>>,
             <<128, 0, 0, 1, 1, 0, 0, 0, 0, 36, 0, 4, 110, 0, 30, 255>>,
             <<0>>, <<>> }

\* attribute(input) of attribute/mod.rs on bytes from the wire
ParseAttribute ==
    /\ cop = "idle"
    /\ \E input \in AttributeInputs :
        /\ cin' = input
        /\ cop' = "attribute"
        /\ cout' = TlvAttribute(input)

\* attribute(&a.to_bytes()) for an attribute of attribute/*.rs
AttributeRoundTrip ==
    /\ cop = "idle"
    /\ \E a \in TlvAttrs \ {TlvUseCandidate} :
        /\ cin' = a
        /\ cop' = "tlv_round_trip"
        /\ cout' = [bytes |-> TlvToBytes(a), parsed |-> TlvAttribute(TlvToBytes(a))]

\* a header as it appears on the wire, with any value in its length field
WireHeader(mt, length, tx) == mt \o U16ToBe(length) \o MAGIC_COOKIE \o tx

\* byte strings handed to message(): well-formed messages, messages whose
\* length field disagrees with the attributes that follow, unknown methods
\* and attribute types, truncated input
ParseInputs ==
    LET tx == [i \in 1..12 |-> i]
        user == <<0, 6, 0, 4>> \o Abcd
        prio == <<0, 36, 0, 4, 110, 0, 30, 255>>
    IN  { WireHeader(<<0, 1>>, 0, tx),
          WireHeader(<<0, 1>>, 8, tx) \o user,
          WireHeader(<<0, 1>>, 16, tx) \o user \o prio,
          \* length field smaller than the attributes that follow
          WireHeader(<<0, 1>>, 0, tx) \o user,
          WireHeader(<<0, 1>>, 8, tx) \o user \o prio,
          \* length field larger than what follows
          WireHeader(<<0, 1>>, 8, tx),
          \* length field ends inside an attribute
          WireHeader(<<0, 1>>, 6, tx) \o user,
          \* a second message behind the first
          WireHeader(<<0, 1>>, 8, tx) \o user \o WireHeader(<<0, 1>>, 0, tx),
          \* method 0x002, method 0x003 (Allocate)
          WireHeader(<<0, 2>>, 0, tx),
          WireHeader(<<0, 3>>, 0, tx),
          \* comprehension-required types outside the table: 0x0001, 0x0025
          WireHeader(<<0, 1>>, 12, tx) \o <<0, 1, 0, 8, 0, 1, 19, 136, 10, 0, 0, 1>>,
          WireHeader(<<0, 1>>, 4, tx) \o <<0, 37, 0, 0>>,
          \* XOR-MAPPED-ADDRESS of family 0x02, FINGERPRINT of two bytes
          WireHeader(<<0, 1>>, 8, tx) \o <<0, 32, 0, 4, 0, 2, 0, 0>>,
          WireHeader(<<0, 1>>, 8, tx) \o <<128, 40, 0, 2, 1, 2, 0, 0>>,
          \* top two bits set, no magic cookie, truncated header, empty
          <<192, 1>> \o Drop(WireHeader(<<0, 1>>, 0, tx), 2),
          <<0, 1, 0, 0, 0, 0, 0, 0>> \o tx,
          Take(WireHeader(<<0, 1>>, 0, tx), 10),
          <<>> }

\* message(input) on bytes from the wire
Parse ==
    /\ cop = "idle"
    /\ \E input \in ParseInputs :
        /\ cin' = input
        /\ cop' = "message"
        /\ cout' = message(input)

\* SessionDescription values built with the public constructors: one with
\* every optional section present, and that one with a single section varied
SdpOrigin ==
    [username |-> <<"-">>, session_id |-> <<"1", "4", "3", "3", "8", "3", "2", "4", "0", "2", "0", "4", "4", "1", "3", "0", "2", "2", "2">>,
     session_version |-> <<"3">>, network_type |-> <<"I", "N">>,
     address_type |-> <<"I", "P", "4">>,
     unicast_address |-> <<"1", "2", "7", ".", "0", ".", "0", ".", "1">>]
SdpConnection ==
    [network_type |-> <<"I", "N">>, address_type |-> <<"I", "P", "4">>,
     connection_address |-> <<"1", "0", ".", "0", ".", "0", ".", "1">>]
SdpRepeat(offsets) ==
    [interval |-> <<"6", "0", "4", "8", "0", "0">>, active_duration |-> <<"3", "6", "0", "0">>, offsets |-> offsets]
SdpAdjustment(offset) == [time |-> <<"2", "8", "8", "2", "8", "4", "4", "5", "2", "6">>, offset |-> offset]
SdpMedia ==
    [typ |-> "audio", port |-> <<"9">>, protocol |-> <<"R", "T", "P", "/", "A", "V", "P">>, format |-> <<"0">>]

\* offsets in seconds: whole hours, and some that are not
SdpOffsets == {-7200, -3600, -60, 0, 60, 3600, 5400, 86400}

SdpAttributeLists ==
    { <<>>,
      <<Property(<<"i", "c", "e", "-", "l", "i", "t", "e">>)>>,
      <<Value(<<"i", "c", "e", "-", "u", "f", "r", "a", "g">>, <<"a", "b", "c">>), Property(<<"i", "c", "e", "-", "l", "i", "t", "e">>)>>,
      <<Property(<<>>)>>,
      <<Property(<<"a", ":", "b">>)>>,
      <<Value(<<"a", " ", "b">>, <<"c">>)>> }

SdpBandwidthLists ==
    { <<>>,
      <<[typ |-> BandwidthCT, value |-> <<"1", "2", "8">>],
        [typ |-> BandwidthAS, value |-> <<"6", "4">>],
        [typ |-> BandwidthExperimental(<<"Y", "Z">>), value |-> <<"1">>]>>,
      <<[typ |-> BandwidthExperimental(<<"C", "T">>), value |-> <<"1">>]>> }

SdpRepeatLists ==
    { <<>>,
      <<SdpRepeat(<<<<"0">>, <<"9", "0", "0", "0", "0">>>>)>>,
      <<SdpRepeat(<<<<"0">>>>), SdpRepeat(<<<<"0">>, <<"1">>>>)>>,
      <<SdpRepeat(<<>>)>> }

SdpTimeZones ==
    { <<>>, <<[adjustments |-> <<>>]>>,
      <<[adjustments |-> <<SdpAdjustment(-3600), SdpAdjustment(0)>>]>> }
    \cup { <<[adjustments |-> <<SdpAdjustment(o)>>]>> : o \in SdpOffsets }

SdpEncryptionKeys ==
    { <<>> } \cup { <<[method |-> m, data |-> d]>> :
                        m \in RetrievalMethods, d \in {<<>>, <<<<"p", "w">>>>} }

SdpMediaDescriptionLists ==
    { <<>>,
      <<MediaDescriptionBase(SdpMedia)>>,
      <<[MediaDescriptionBase(SdpMedia) EXCEPT
            !.title = <<<<"t">>>>,
            !.connection = <<SdpConnection>>,
            !.bandwidths = <<[typ |-> BandwidthAS, value |-> <<"6", "4">>]>>,
            !.encryption_key = <<[method |-> "prompt", data |-> <<>>]>>,
            !.attributes = <<Property(<<"s", "e", "n", "d", "r", "e", "c", "v">>)>>],
        MediaDescriptionBase([SdpMedia EXCEPT !.typ = "video"])>> }

SdpFull ==
    [SessionDescriptionBase(0, SdpOrigin, <<"-">>,
                            [timing |-> [start_time |-> <<"0">>, stop_time |-> <<"0">>],
                             repeat_times |-> <<SdpRepeat(<<<<"0">>>>)>>])
        EXCEPT !.session_information = <<<<"i">>>>,
               !.uri = <<<<"u">>>>,
               !.email_addresses = <<<<"e">>, <<"f">>>>,
               !.phone_numbers = <<<<"1">>>>,
               !.connection = <<SdpConnection>>,
               !.bandwidths = <<[typ |-> BandwidthAS, value |-> <<"6", "4">>]>>,
               !.time_zone = <<[adjustments |-> <<SdpAdjustment(3600)>>]>>,
               !.encryption_key = <<[method |-> "clear", data |-> <<<<"p", "w">>>>]>>,
               !.attributes = <<Property(<<"i", "c", "e", "-", "l", "i", "t", "e">>)>>,
               !.media_descriptions = <<MediaDescriptionBase(SdpMedia)>>]

SdpValues ==
    { SessionDescriptionBase(v, SdpOrigin, <<"-">>,
                             [timing |-> [start_time |-> <<"0">>, stop_time |-> <<"0">>],
                              repeat_times |-> <<>>]) : v \in {0, 255} }
    \cup { [SdpFull EXCEPT !.attributes = a] : a \in SdpAttributeLists }
    \cup { [SdpFull EXCEPT !.bandwidths = b] : b \in SdpBandwidthLists }
    \cup { [SdpFull EXCEPT !.time_description.repeat_times = r] : r \in SdpRepeatLists }
    \cup { [SdpFull EXCEPT !.time_zone = z] : z \in SdpTimeZones }
    \cup { [SdpFull EXCEPT !.encryption_key = e] : e \in SdpEncryptionKeys }
    \cup { [SdpFull EXCEPT !.media_descriptions = m] : m \in SdpMediaDescriptionLists }

\* SessionDescription::from_str(&x.to_string())
SdpRoundTrip ==
    /\ cop = "idle"
    /\ \E x \in SdpValues :
        \E text \in {SessionDescriptionDisplay(x)} :
            /\ cin' = x
            /\ cop' = "sdp_round_trip"
            /\ cout' = [text |-> text,
                        parsed |-> IF text.k = "Ok" THEN from_str(text.v) ELSE Panic]

\* texts handed to SessionDescription::from_str
SdpTexts ==
    {
      \* a complete description
      <<"v", "=", "0", "CR", "LF", "o", "=", "-", " ", "1", "4", "3", "3",
        "8", "3", "2", "4", "0", "2", "0", "4", "4", "1", "3", "0", "2", "2",
        "2", " ", "3", " ", "I", "N", " ", "I", "P", "4", " ", "1", "2", "7",
        ".", "0", ".", "0", ".", "1", "CR", "LF", "s", "=", "-", "CR", "LF",
        "c", "=", "I", "N", " ", "I", "P", "4", " ", "1", "0", ".", "0", ".",
        "0", ".", "1", "CR", "LF", "b", "=", "A", "S", ":", "1", "2", "8",
        "CR", "LF", "t", "=", "0", " ", "0", "CR", "LF", "r", "=", "6", "0",
        "4", "8", "0", "0", " ", "3", "6", "0", "0", " ", "0", " ", "9", "0",
        "0", "0", "0", "CR", "LF", "z", "=", "2", "8", "8", "2", "8", "4",
        "4", "5", "2", "6", " ", "-", "1", "h", " ", "2", "8", "9", "8", "8",
        "4", "8", "0", "7", "0", " ", "0", "CR", "LF", "k", "=", "c", "l",
        "e", "a", "r", ":", "p", "w", "CR", "LF", "a", "=", "i", "c", "e",
        "-", "l", "i", "t", "e", "CR", "LF", "a", "=", "i", "c", "e", "-",
        "u", "f", "r", "a", "g", ":", "a", "b", "c", "CR", "LF", "m", "=",
        "a", "u", "d", "i", "o", " ", "9", " ", "R", "T", "P", "/", "A", "V",
        "P", " ", "0", "CR", "LF", "a", "=", "s", "e", "n", "d", "r", "e",
        "c", "v", "CR", "LF">>,
      \* the shortest description
      <<"v", "=", "0", "CR", "LF", "o", "=", "-", " ", "1", " ", "1", " ",
        "I", "N", " ", "I", "P", "4", " ", "0", ".", "0", ".", "0", ".", "0",
        "CR", "LF", "s", "=", "-", "CR", "LF", "t", "=", "0", " ", "0", "CR",
        "LF">>,
      \* the largest version and the largest 64-bit numbers
      <<"v", "=", "2", "5", "5", "CR", "LF", "o", "=", "-", " ", "1", "8",
        "4", "4", "6", "7", "4", "4", "0", "7", "3", "7", "0", "9", "5", "5",
        "1", "6", "1", "5", " ", "1", " ", "I", "N", " ", "I", "P", "4", " ",
        "0", ".", "0", ".", "0", ".", "0", "CR", "LF", "s", "=", "-", "CR",
        "LF", "t", "=", "0", " ", "0", "CR", "LF">>,
      \* unmatched text after the description
      <<"v", "=", "0", "CR", "LF", "o", "=", "-", " ", "1", " ", "1", " ",
        "I", "N", " ", "I", "P", "4", " ", "0", ".", "0", ".", "0", ".", "0",
        "CR", "LF", "s", "=", "-", "CR", "LF", "t", "=", "0", " ", "0", "CR",
        "LF", "x", "=", "1", "CR", "LF">>,
      \* a description cut short
      <<"v", "=", "0", "CR", "LF", "o", "=", "-", " ", "1", " ", "1", " ",
        "I", "N", " ", "I", "P", "4", " ", "0", ".", "0", ".", "0", ".", "0",
        "CR", "LF">>,
      \* nothing
      <<>>,
      \* a letter where the version number goes
      <<"v", "=", "x", "CR", "LF", "o", "=", "-", " ", "1", " ", "1", " ",
        "I", "N", " ", "I", "P", "4", " ", "0", ".", "0", ".", "0", ".", "0",
        "CR", "LF", "s", "=", "-", "CR", "LF", "t", "=", "0", " ", "0", "CR",
        "LF">>,
      \* v= above 255
      <<"v", "=", "2", "5", "6", "CR", "LF", "o", "=", "-", " ", "1", " ",
        "1", " ", "I", "N", " ", "I", "P", "4", " ", "0", ".", "0", ".", "0",
        ".", "0", "CR", "LF", "s", "=", "-", "CR", "LF", "t", "=", "0", " ",
        "0", "CR", "LF">>,
      \* a session-id of 2^64
      <<"v", "=", "0", "CR", "LF", "o", "=", "-", " ", "1", "8", "4", "4",
        "6", "7", "4", "4", "0", "7", "3", "7", "0", "9", "5", "5", "1", "6",
        "1", "6", " ", "1", " ", "I", "N", " ", "I", "P", "4", " ", "0", ".",
        "0", ".", "0", ".", "0", "CR", "LF", "s", "=", "-", "CR", "LF", "t",
        "=", "0", " ", "0", "CR", "LF">>,
      \* a session-version of 2^64
      <<"v", "=", "0", "CR", "LF", "o", "=", "-", " ", "1", " ", "1", "8",
        "4", "4", "6", "7", "4", "4", "0", "7", "3", "7", "0", "9", "5", "5",
        "1", "6", "1", "6", " ", "I", "N", " ", "I", "P", "4", " ", "0", ".",
        "0", ".", "0", ".", "0", "CR", "LF", "s", "=", "-", "CR", "LF", "t",
        "=", "0", " ", "0", "CR", "LF">>,
      \* a start time of 2^64
      <<"v", "=", "0", "CR", "LF", "o", "=", "-", " ", "1", " ", "1", " ",
        "I", "N", " ", "I", "P", "4", " ", "0", ".", "0", ".", "0", ".", "0",
        "CR", "LF", "s", "=", "-", "CR", "LF", "t", "=", "1", "8", "4", "4",
        "6", "7", "4", "4", "0", "7", "3", "7", "0", "9", "5", "5", "1", "6",
        "1", "6", " ", "0", "CR", "LF">>,
      \* a stop time of 2^64
      <<"v", "=", "0", "CR", "LF", "o", "=", "-", " ", "1", " ", "1", " ",
        "I", "N", " ", "I", "P", "4", " ", "0", ".", "0", ".", "0", ".", "0",
        "CR", "LF", "s", "=", "-", "CR", "LF", "t", "=", "0", " ", "1", "8",
        "4", "4", "6", "7", "4", "4", "0", "7", "3", "7", "0", "9", "5", "5",
        "1", "6", "1", "6", "CR", "LF">>,
      \* a bandwidth of 2^64
      <<"v", "=", "0", "CR", "LF", "o", "=", "-", " ", "1", " ", "1", " ",
        "I", "N", " ", "I", "P", "4", " ", "0", ".", "0", ".", "0", ".", "0",
        "CR", "LF", "s", "=", "-", "CR", "LF", "b", "=", "C", "T", ":", "1",
        "8", "4", "4", "6", "7", "4", "4", "0", "7", "3", "7", "0", "9", "5",
        "5", "1", "6", "1", "6", "CR", "LF", "t", "=", "0", " ", "0", "CR",
        "LF">>,
      \* a repeat interval of 2^64
      <<"v", "=", "0", "CR", "LF", "o", "=", "-", " ", "1", " ", "1", " ",
        "I", "N", " ", "I", "P", "4", " ", "0", ".", "0", ".", "0", ".", "0",
        "CR", "LF", "s", "=", "-", "CR", "LF", "t", "=", "0", " ", "0", "CR",
        "LF", "r", "=", "1", "8", "4", "4", "6", "7", "4", "4", "0", "7",
        "3", "7", "0", "9", "5", "5", "1", "6", "1", "6", " ", "1", " ", "0",
        "CR", "LF">>,
      \* a time-zone offset of 2^63
      <<"v", "=", "0", "CR", "LF", "o", "=", "-", " ", "1", " ", "1", " ",
        "I", "N", " ", "I", "P", "4", " ", "0", ".", "0", ".", "0", ".", "0",
        "CR", "LF", "s", "=", "-", "CR", "LF", "t", "=", "0", " ", "0", "CR",
        "LF", "z", "=", "0", " ", "9", "2", "2", "3", "3", "7", "2", "0",
        "3", "6", "8", "5", "4", "7", "7", "5", "8", "0", "8", "CR", "LF">>,
      \* a media port of 2^64
      <<"v", "=", "0", "CR", "LF", "o", "=", "-", " ", "1", " ", "1", " ",
        "I", "N", " ", "I", "P", "4", " ", "0", ".", "0", ".", "0", ".", "0",
        "CR", "LF", "s", "=", "-", "CR", "LF", "t", "=", "0", " ", "0", "CR",
        "LF", "m", "=", "a", "u", "d", "i", "o", " ", "1", "8", "4", "4",
        "6", "7", "4", "4", "0", "7", "3", "7", "0", "9", "5", "5", "1", "6",
        "1", "6", " ", "R", "T", "P", "/", "A", "V", "P", " ", "0", "CR",
        "LF">>
    }

\* SessionDescription::from_str(text)
SdpFromStr ==
    /\ cop = "idle"
    /\ \E text \in SdpTexts :
        /\ cin' = text
        /\ cop' = "from_str"
        /\ cout' = from_str(text)

\* ------------------------------------------------ ice: candidate lines
\* <foundation> 1 <transport> <priority> 10.0.0.1 9 typ <type><suffix>
CandidateLine(f, t, ty, suffix) ==
    f \o <<" ", "1", " ">> \o t \o <<" ", "2", "1", "3", "0", "7", "0", "6", "4", "3", "1", " ", "1", "0", ".", "0", ".", "0", ".", "1", " ", "9", " ", "t", "y", "p", " ">> \o ty \o suffix

\* transport tokens: every casing the parser is handed, and other protocols
UdpCasings == {<<"u", "d", "p">>, <<"U", "D", "P">>, <<"U", "d", "p">>, <<"u", "D", "p">>}
TcpCasings == {<<"t", "c", "p">>, <<"T", "C", "P">>, <<"t", "C", "p">>, <<"T", "c", "p">>}
OtherTransports == {<<"s", "c", "t", "p">>, <<"d", "c", "c", "p">>}
TransportTokens == UdpCasings \cup TcpCasings \cup OtherTransports

\* type tokens: the four candidate types, and tokens that are none of them
KnownTypes == {<<"h", "o", "s", "t">>, <<"s", "r", "f", "l", "x">>, <<"p", "r", "f", "l", "x">>, <<"r", "e", "l", "a", "y">>}
OtherTypes == {<<"H", "O", "S", "T">>, <<"f", "o", "o">>}
TypeTokens == KnownTypes \cup OtherTypes

\* what may follow the type: a related address, extension pairs, both
RelatedSuffix == <<" ", "r", "a", "d", "d", "r", " ", "1", "9", "2", ".", "1", "6", "8", ".", "0", ".", "1", "9", "6", " ", "r", "p", "o", "r", "t", " ", "3", "6", "7", "6", "8">>
CandidateSuffixes ==
    { <<>>, RelatedSuffix, <<" ", "g", "e", "n", "e", "r", "a", "t", "i", "o", "n", " ", "0">>, RelatedSuffix \o <<" ", "g", "e", "n", "e", "r", "a", "t", "i", "o", "n", " ", "0", " ", "u", "f", "r", "a", "g", " ", "a", "b", "c">> }

FoundationIndexes == {0, 1}
CandidateAddresses ==
    { SocketAddr(<<10, 0, 0, 1>>, 9), SocketAddr(<<192, 168, 0, 196>>, 36768),
      SocketAddr(<<47, 61, 61, 61>>, 65535) }

\* the lines candidate_attributes() emits
EmittedLines ==
    { encode_as_sdp(f, a).v : f \in FoundationIndexes, a \in CandidateAddresses }

\* the lines of the crate's tests and lines at the limits of the grammar
TestLines ==
    { <<"1", "8", "5", "3", "8", "8", "7", "6", "7", "4", " ", "2", " ", "u",
        "d", "p", " ", "1", "5", "1", "8", "2", "8", "0", "4", "4", "7", " ",
        "4", "7", ".", "6", "1", ".", "6", "1", ".", "6", "1", " ", "3", "6",
        "7", "6", "8", " ", "t", "y", "p", " ", "s", "r", "f", "l", "x", " ",
        "r", "a", "d", "d", "r", " ", "1", "9", "2", ".", "1", "6", "8", ".",
        "0", ".", "1", "9", "6", " ", "r", "p", "o", "r", "t", " ", "3", "6",
        "7", "6", "8", " ", "g", "e", "n", "e", "r", "a", "t", "i", "o", "n",
        " ", "0">>,
      <<"3", " ", "2", " ", "U", "D", "P", " ", "1", "6", "8", "6", "0", "5",
        "2", "8", "6", "2", " ", "4", "7", ".", "6", "1", ".", "6", "1", ".",
        "6", "1", " ", "6", "4", "3", "4", "6", " ", "t", "y", "p", " ", "s",
        "r", "f", "l", "x", " ", "r", "a", "d", "d", "r", " ", "1", "9", "2",
        ".", "1", "6", "8", ".", "0", ".", "1", "9", "6", " ", "r", "p", "o",
        "r", "t", " ", "6", "4", "3", "4", "6">>,
      <<"4", " ", "2", " ", "T", "C", "P", " ", "2", "1", "0", "5", "4", "5",
        "8", "9", "4", "2", " ", "1", "0", ".", "1", "0", ".", "1", "0", ".",
        "1", "0", " ", "9", " ", "t", "y", "p", " ", "h", "o", "s", "t", " ",
        "t", "c", "p", "t", "y", "p", "e", " ", "a", "c", "t", "i", "v", "e">>,
      <<"a", "a", "a", "a", "a", "a", "a", "a", "a", "a", "a", "a", "a", "a",
        "a", "a", "a", "a", "a", "a", "a", "a", "a", "a", "a", "a", "a", "a",
        "a", "a", "a", "a", " ", "6", "5", "5", "3", "5", " ", "u", "d", "p",
        " ", "4", "2", "9", "4", "9", "6", "7", "2", "9", "5", " ", "2", "5",
        "5", ".", "2", "5", "5", ".", "2", "5", "5", ".", "2", "5", "5", " ",
        "6", "5", "5", "3", "5", " ", "t", "y", "p", " ", "r", "e", "l", "a",
        "y">>,
      <<"+", "/", " ", "0", "0", "0", "0", "1", " ", "t", "c", "p", " ", "0",
        " ", "0", ".", "0", ".", "0", ".", "0", " ", "0", " ", "t", "y", "p",
        " ", "p", "r", "f", "l", "x", " ", "a", " ", "b", " ", "c", " ", "d">>,
      <<"1", " ", "1", " ", "u", "d", "p", " ", "1", " ", "1", "0", ".", "0",
        ".", "0", ".", "1", " ", "9", " ", "t", "y", "p", " ", "h", "o", "s",
        "t", " ", "r", "a", "d", "d", "r", " ", "1", "0", ".", "0", ".", "0",
        ".", "2">> }

\* lines that break the grammar in some other way than by their transport
\* or type token
BrokenLines ==
    { <<>>,
      <<"1", " ", "1", " ", "u", "d", "p", " ", "1", " ", "1", "0", ".", "0",
        ".", "0", ".", "1", " ", "9">>,
      <<"1", " ", "1", " ", "u", "d", "p", " ", "1", " ", "1", "0", ".", "0",
        ".", "0", ".", "1", " ", "9", " ", "t", "y", "p", " ", "h", "o", "s",
        "t", " ">>,
      <<"1", " ", "1", " ", "u", "d", "p", " ", "1", " ", "1", "0", ".", "0",
        ".", "0", ".", "1", " ", "9", " ", "t", "y", "p", " ", "h", "o", "s",
        "t", " ", "g", "e", "n", "e", "r", "a", "t", "i", "o", "n">>,
      <<"1", " ", "6", "5", "5", "3", "6", " ", "u", "d", "p", " ", "1", " ",
        "1", "0", ".", "0", ".", "0", ".", "1", " ", "9", " ", "t", "y", "p",
        " ", "h", "o", "s", "t">>,
      <<"1", " ", "1", " ", "u", "d", "p", " ", "4", "2", "9", "4", "9", "6",
        "7", "2", "9", "6", " ", "1", "0", ".", "0", ".", "0", ".", "1", " ",
        "9", " ", "t", "y", "p", " ", "h", "o", "s", "t">>,
      <<"1", " ", "1", " ", "u", "d", "p", " ", "1", " ", "1", "0", ".", "0",
        ".", "0", ".", "2", "5", "6", " ", "9", " ", "t", "y", "p", " ", "h",
        "o", "s", "t">>,
      <<"1", " ", "1", " ", "u", "d", "p", " ", "1", " ", "1", "0", ".", "0",
        ".", "0", ".", "1", " ", "6", "5", "5", "3", "6", " ", "t", "y", "p",
        " ", "h", "o", "s", "t">>,
      <<"a", "a", "a", "a", "a", "a", "a", "a", "a", "a", "a", "a", "a", "a",
        "a", "a", "a", "a", "a", "a", "a", "a", "a", "a", "a", "a", "a", "a",
        "a", "a", "a", "a", "a", " ", "1", " ", "u", "d", "p", " ", "1", " ",
        "1", "0", ".", "0", ".", "0", ".", "1", " ", "9", " ", "t", "y", "p",
        " ", "h", "o", "s", "t">>,
      <<"1", " ", "1", " ", "u", "d", "p", " ", "1", " ", "1", "0", ".", "0",
        ".", "0", " ", "9", " ", "t", "y", "p", " ", "h", "o", "s", "t">>,
      <<"?", " ", "1", " ", "u", "d", "p", " ", "1", " ", "1", "0", ".", "0",
        ".", "0", ".", "1", " ", "9", " ", "t", "y", "p", " ", "h", "o", "s",
        "t">> }

CandidateLines ==
    { CandidateLine(<<"1">>, t, ty, sfx) :
          t \in TransportTokens, ty \in TypeTokens, sfx \in CandidateSuffixes }
    \cup EmittedLines \cup TestLines \cup BrokenLines

\* s.parse::<RemoteCandidate>(), and the parsed address encoded again under
\* each foundation
CandidateFromStr ==
    /\ cop = "idle"
    /\ \E line \in CandidateLines :
        \E r \in {RemoteCandidateFromStr(line)} :
            /\ cin' = line
            /\ cop' = "candidate_from_str"
            /\ cout' = [parsed |-> r,
                        lines |-> IF r.k = "Ok"
                                  THEN [f \in FoundationIndexes |->
                                           encode_as_sdp(f, r.v.address).v]
                                  ELSE <<>>]

\* RemoteCandidate::try_from(attribute), as add_remote_candidate calls it
CandidateTryFrom ==
    /\ cop = "idle"
    /\ \E a \in { Value(<<"c", "a", "n", "d", "i", "d", "a", "t", "e">>, line) : line \in CandidateLines }
                \cup { Property(<<"c", "a", "n", "d", "i", "d", "a", "t", "e">>), Value(<<"c", "a", "n", "d", "i", "d", "a", "t", "e", "s">>, <<"1">>) } :
        /\ cin' = a
        /\ cop' = "candidate_try_from"
        /\ cout' = RemoteCandidateTryFrom(a)

\* a local candidate on each of the addresses
HostCandidate(address) == [ty |-> "Host", address |-> address]

\* local candidate lists of an agent: repeated calls of gather push one
\* candidate each
LocalCandidateLists ==
    { <<>> }
    \cup { <<HostCandidate(a)>> : a \in CandidateAddresses }
    \cup { <<HostCandidate(a), HostCandidate(b)>> : a, b \in CandidateAddresses }
    \cup { <<HostCandidate(SocketAddr(<<10, 0, 0, 1>>, 9)),
             HostCandidate(SocketAddr(<<192, 168, 0, 196>>, 36768)),
             HostCandidate(SocketAddr(<<47, 61, 61, 61>>, 65535))>>,
           [i \in 1..11 |-> HostCandidate(SocketAddr(<<0, 0, 0, 255>>, 50000 + i))] }

\* agent.candidate_attributes(), and RemoteCandidate::try_from on each of
\* the attributes
CandidateAttributes ==
    /\ cop = "idle"
    /\ \E list \in LocalCandidateLists :
        \E attributes \in {candidate_attributes([local_candidates |-> list])} :
            /\ cin' = list
            /\ cop' = "candidate_attributes"
            /\ cout' = [attributes |-> attributes,
                        parsed |-> [i \in 1..Len(attributes) |->
                                       RemoteCandidateTryFrom(attributes[i])]]

\* the attributes that follow another one in the pairs
PairSeconds ==
    { TlvUsername(Abcd), TlvPriority(<<0, 0, 0, 1>>),
      TlvErrorCode(401, Knuth) }

\* attribute by attribute over a.to_bytes() followed by b.to_bytes(): the
\* second call is handed the remainder of the first
AttributePair ==
    /\ cop = "idle"
    /\ \E a \in TlvAttrs \ {TlvUseCandidate}, b \in PairSeconds :
        \E bytes \in {TlvToBytes(a) \o TlvToBytes(b)} :
            \E first \in {TlvAttribute(bytes)} :
                /\ cin' = <<a, b>>
                /\ cop' = "tlv_pair"
                /\ cout' = [bytes |-> bytes,
                            first |-> first,
                            second |-> IF first.k = "Ok"
                                       THEN TlvAttribute(first.rest)
                                       ELSE first]

\* an ERROR-CODE attribute on the wire: reserved bytes, class byte, number
\* byte, reason phrase (the length field counts the unpadded value)
WireErrorCode(reserved, class, number, phrase) ==
    U16ToBe(9) \o U16ToBe(4 + Len(phrase))
        \o PadTo4(reserved \o <<class, number>> \o phrase)

\* class and number bytes of ERROR-CODE attributes: recognized codes, codes
\* outside the set, the classes 0 and 7, numbers above 99, bits set above
\* the class
ErrorCodeClassNumbers ==
    { <<3, 0>>, <<4, 0>>, <<4, 1>>, <<4, 87>>, <<5, 8>>, <<4, 2>>, <<6, 0>>,
      <<3, 99>>, <<0, 0>>, <<7, 0>>, <<3, 100>>, <<2, 200>>, <<1, 200>>,
      <<0, 255>>, <<4, 99>>, <<12, 1>>, <<252, 20>> }

\* bytes handed to error_code: attributes as a peer writes them, one with a
\* value shorter than four bytes, one of another type, one cut short
ErrorCodeInputs ==
    { WireErrorCode(reserved, cn[1], cn[2], phrase) :
        reserved \in {<<0, 0>>, <<0, 1>>, <<128, 0>>},
        cn \in ErrorCodeClassNumbers,
        phrase \in {<<>>, Abcd, Knuth} }
      \cup { <<0, 9, 0, 2, 4, 1, 0, 0>>,
             <<0, 6, 0, 4, 97, 98, 99, 100>>,
             <<0, 9, 0, 8, 0, 0, 4, 1>>,
             <<0, 9, 0, 5, 0, 0, 4, 1, 97>>,
             <<0, 9, 0, 4, 0, 0, 4, 1, 0, 36, 0, 4, 0, 0, 0, 1>> }

\* error_code(input), and to_bytes() of the attribute it returns
ParseErrorCode ==
    /\ cop = "idle"
    /\ \E input \in ErrorCodeInputs :
        \E parsed \in {tlv_error_code(input)} :
            /\ cin' = input
            /\ cop' = "error_code"
            /\ cout' = [parsed |-> parsed,
                        bytes |-> IF parsed.k = "Ok" THEN TlvToBytes(parsed.v)
                                  ELSE <<>>]

\* the parts of the adjustments of a z= line: a time, and the sign, digits
\* and unit of an offset
TzAdjustment(time, sign, digits, unit) ==
    [time |-> time, sign |-> sign, digits |-> digits, unit |-> unit]
TzTimes == { <<"0">>, <<"2", "8", "8", "2", "8", "4", "4", "5", "2", "6">> }
TzSigns == { <<>>, <<"+">>, <<"-">> }
TzDigits == { <<"0">>, <<"1">>, <<"2", "5">>, <<"0", "0", "7">> }
TzUnits == { <<>>, <<"d">>, <<"h">>, <<"m">>, <<"s">> }

\* the z= lines handed to time_zone: every sign, unit and digit string in a
\* line of one adjustment, lines of two and three adjustments, the line
\* without an adjustment, and offsets at the ends of i64
TzLines ==
    { <<>> }
    \cup { <<TzAdjustment(<<"0">>, sg, ds, u)>> :
             sg \in TzSigns, ds \in TzDigits, u \in TzUnits }
    \cup { <<TzAdjustment(t, <<"-">>, <<"1">>, <<"h">>),
             TzAdjustment(<<"2", "8", "9", "8", "8", "4", "8", "0", "7", "0">>,
                          sg, ds, u)>> :
             t \in TzTimes, sg \in {<<>>, <<"-">>}, ds \in {<<"0">>, <<"2", "5">>},
             u \in {<<>>, <<"d">>, <<"m">>} }
    \cup { <<TzAdjustment(<<"1">>, <<>>, <<"1">>, <<"d">>),
             TzAdjustment(<<"2">>, <<"+">>, <<"2">>, <<"m">>),
             TzAdjustment(<<"3">>, <<"-">>, <<"3">>, <<"s">>)>>,
           <<TzAdjustment(<<"0">>, <<>>, I64MinMagnitude, <<>>)>>,
           <<TzAdjustment(<<"0">>, <<"+">>, I64MinMagnitude, <<"s">>)>>,
           <<TzAdjustment(<<"0">>, <<>>, <<"1", "0", "6", "7", "5", "1", "9", "9", "1", "1", "6", "7", "3", "0", "1">>, <<"d">>)>>,
           <<TzAdjustment(<<"0">>, <<"-">>, <<"2", "5", "6", "2", "0", "4", "7", "7", "8", "8", "0", "1", "5", "2", "1", "6">>, <<"h">>)>>,
           <<TzAdjustment(<<"0">>, <<>>, <<"1", "5", "3", "7", "2", "2", "8", "6", "7", "2", "8", "0", "9", "1", "2", "9", "3", "1">>, <<"m">>)>> }

\* the text of a z= line with these adjustments
TzLineText(parts) ==
    <<"z", "=">>
        \o Flatten([i \in 1..Len(parts) |->
                       (IF i = 1 THEN <<>> ELSE <<" ">>)
                           \o parts[i].time \o <<" ">> \o parts[i].sign
                           \o parts[i].digits \o parts[i].unit])
        \o CRLF

\* time_zone(line); where the product leaves i64, the outcome of either
\* build: the panic, or Ok with the product modulo 2^64 ("Wrapped", a
\* value the model does not compute)
ParseTimeZone ==
    /\ cop = "idle"
    /\ \E parts \in TzLines :
        \E r \in {time_zone(TzLineText(parts))} :
            \E out \in (IF r.k = "Panic" /\ r.v # <<>>
                         THEN {r, [k |-> "Wrapped", v |-> <<>>, rest |-> <<>>]}
                         ELSE {r}) :
                /\ cin' = parts
                /\ cop' = "time_zone"
                /\ cout' = out

CodecInit == BuilderIdle /\ CodecIdle /\ IceIdle /\ PcIdle

CodecNext ==
    \/ MessageRoundTrip /\ UNCHANGED <<builderVars, iceVars, pcVars>>
    \/ AttributeToBytes /\ UNCHANGED <<builderVars, iceVars, pcVars>>
    \/ Parse /\ UNCHANGED <<builderVars, iceVars, pcVars>>
    \/ ParseAttribute /\ UNCHANGED <<builderVars, iceVars, pcVars>>
    \/ AttributeRoundTrip /\ UNCHANGED <<builderVars, iceVars, pcVars>>
    \/ SdpFromStr /\ UNCHANGED <<builderVars, iceVars, pcVars>>
    \/ SdpRoundTrip /\ UNCHANGED <<builderVars, iceVars, pcVars>>
    \/ CandidateFromStr /\ UNCHANGED <<builderVars, iceVars, pcVars>>
    \/ CandidateTryFrom /\ UNCHANGED <<builderVars, iceVars, pcVars>>
    \/ CandidateAttributes /\ UNCHANGED <<builderVars, iceVars, pcVars>>
    \/ AttributePair /\ UNCHANGED <<builderVars, iceVars, pcVars>>
    \/ ParseErrorCode /\ UNCHANGED <<builderVars, iceVars, pcVars>>
    \/ ParseTimeZone /\ UNCHANGED <<builderVars, iceVars, pcVars>>

SpecCodec == CodecInit /\ [][CodecNext]_vars

\* -------------------------------------------------------- codec: claims
RoundUp4(n) == n + ((4 - (n % 4)) % 4)

\* C5: for every message without MESSAGE-INTEGRITY or FINGERPRINT whose
\* header.length is consistent with its attributes, parsing the bytes that
\* to_bytes produces succeeds with an empty remainder and returns the message.
C5_RoundTrip ==
    cop = "round_trip" =>
        /\ cout.k = "Ok"
        /\ cout.rest = <<>>
        /\ cout.v = cin

\* C6: for every attribute of every variant, to_bytes has 4 + length()
\* rounded up to a multiple of 4 bytes, and bytes 2..4 hold length().
C6_TlvLength ==
    cop = "tlv_to_bytes" =>
        /\ Len(cout) = 4 + RoundUp4(TlvLength(cin))
        /\ BeToU16(SubSeq(cout, 3, 4)) = TlvLength(cin)

\* ---------------------------------------------------------- ice: inputs
\* two passwords rand_ice_string(22) can draw (22 distinct ICE characters)
Passwords == { [i \in 1..22 |-> 96 + i], [i \in 1..22 |-> 64 + i] }
\* two user fragments rand_ice_string(4) can draw: "abcd" and "9+/Z"
Usernames == { Abcd, <<57, 43, 47, 90>> }

\* the letters and digits in the order of their ASCII codes
LowerSeq ==
    <<"a", "b", "c", "d", "e", "f", "g", "h", "i", "j", "k", "l", "m",
      "n", "o", "p", "q", "r", "s", "t", "u", "v", "w", "x", "y", "z">>
UpperSeq ==
    <<"A", "B", "C", "D", "E", "F", "G", "H", "I", "J", "K", "L", "M",
      "N", "O", "P", "Q", "R", "S", "T", "U", "V", "W", "X", "Y", "Z">>
DigitSeq == <<"0", "1", "2", "3", "4", "5", "6", "7", "8", "9">>

\* the character a byte of an ASCII string spells ("?" stands for every
\* character outside the ICE character set)
AsciiChar(b) ==
    IF b >= 97 /\ b <= 122 THEN LowerSeq[b - 96]
    ELSE IF b >= 65 /\ b <= 90 THEN UpperSeq[b - 64]
    ELSE IF b >= 48 /\ b <= 57 THEN DigitSeq[b - 47]
    ELSE IF b = 43 THEN "+"
    ELSE IF b = 47 THEN "/"
    ELSE "?"

\* a String of the agent as the text the sdp crate is handed
StringText(bytes) == [i \in 1..Len(bytes) |-> AsciiChar(bytes[i])]

\* byte strings among which the model draws the random strings: the
\* passwords and user fragments above, and strings that choose_multiple
\* cannot return (a repeated character, a character outside ICE_CHARS,
\* another length)
IceStringSamples ==
    Passwords \cup Usernames
        \cup { <<97, 98, 99>>, <<97, 98, 99, 100, 101>>, <<97, 97, 98, 99>>,
               <<97, 98, 45, 99>>, [i \in 1..21 |-> 96 + i],
               [i \in 1..22 |-> 97] }

\* fn rand_ice_string: what choose_multiple can return, length distinct
\* elements of ICE_CHARS (there are 64, and length is 4 or 22)
rand_ice_string(length) ==
    { s \in IceStringSamples :
        /\ Len(s) = length
        /\ \A i \in 1..Len(s) : AsciiChar(s[i]) \in ICE_CHARS
        /\ \A i, j \in 1..Len(s) : i # j => s[i] # s[j] }
LocalA == <<192, 168, 0, 10>>
LocalB == <<10, 0, 0, 2>>
\* what get_local_addrs() can return
LocalAddrLists == { <<LocalA>>, <<LocalA, LocalB>> }
\* the port the kernel assigns to a socket bound to port 0
KernelPorts == { 50000 }
\* the peers datagrams arrive from (ip, port)
Peers == { <<<<47, 61, 61, 61>>, 36768>>, <<Addr1, 5000>> }

Tx1 == [i \in 1..12 |-> i]
Tx2 == [i \in 1..12 |-> 0]

\* a datagram as a peer puts it on the wire: message type, length, magic
\* cookie, transaction id, attributes (padded to four bytes, RFC 5389)
WireMessage(mt, tx, attrs) ==
    mt \o U16ToBe(Len(attrs)) \o MAGIC_COOKIE \o tx \o attrs
WireUsername(u) == U16ToBe(6) \o U16ToBe(Len(u)) \o PadTo4(u)
WirePriority == <<0, 36, 0, 4, 110, 0, 30, 255>>
WireUseCandidate == <<0, 37, 0, 0>>

Datagrams ==
    { \* Binding Requests (0x0001) with USERNAME
      WireMessage(<<0, 1>>, Tx1, WireUsername(Knuth) \o WirePriority),
      WireMessage(<<0, 1>>, Tx2, WireUsername(Abcd) \o WireUsername(Knuth)),
      \* a Binding Request without USERNAME
      WireMessage(<<0, 1>>, Tx1, WirePriority),
      \* Binding Indication (0x0011), Success (0x0101), Error (0x0111)
      WireMessage(<<0, 17>>, Tx1, WireUsername(Knuth)),
      WireMessage(<<1, 1>>, Tx2, WireUsername(Knuth)),
      WireMessage(<<1, 17>>, Tx1, WireUsername(Abcd)),
      \* a request of method 0x002
      WireMessage(<<0, 2>>, Tx1, WireUsername(Knuth)),
      \* a Binding Request cut short inside the header
      Take(WireMessage(<<0, 1>>, Tx1, <<>>), 10),
      \* no magic cookie
      <<0, 1, 0, 0, 0, 0, 0, 0>> \o Tx1,
      \* a Binding Request carrying USE-CANDIDATE
      WireMessage(<<0, 1>>, Tx2, WireUsername(Knuth) \o WireUseCandidate),
      \* a USERNAME that is not UTF-8
      WireMessage(<<0, 1>>, Tx1, <<0, 6, 0, 1, 255, 0, 0, 0>>),
      \* not STUN at all
      <<128, 0>> }

\* --------------------------------------------------------- ice: actions
\* Agent::default()
IceInit ==
    /\ \E u \in rand_ice_string(4), pw \in rand_ice_string(22),
          addrs \in LocalAddrLists :
          agent = [alive |-> TRUE, username |-> u, password |-> pw,
                   local_addrs |-> addrs, local_candidates |-> <<>>,
                   remote_candidates |-> <<>>, gather |-> "idle", next |-> 1]
    /\ task = NoTask
    /\ sent = <<>>
    /\ rcvd = 0

\* the agent as the for loop of gather starts over local_addrs
gather_start(a) ==
    [a EXCEPT !.next = 1,
              !.gather = IF Len(a.local_addrs) = 0 THEN "done" ELSE "running"]

\* Agent::gather is called by the owner of a new agent
Gather ==
    /\ agent.alive
    /\ agent.gather = "idle"
    /\ agent' = gather_start(agent)
    /\ UNCHANGED <<task, sent, rcvd>>

\* udp_listener returns Err(BindFailed): warn! and the next address
BindFails ==
    /\ agent.gather = "running"
    /\ agent' = [agent EXCEPT
                    !.next = @ + 1,
                    !.gather = IF agent.next + 1 > Len(agent.local_addrs)
                               THEN "done" ELSE "running"]
    /\ UNCHANGED <<task, sent, rcvd>>

\* mutant: gather goes on to the next address after a successful bind
BindSucceedsNoBreak ==
    /\ agent.gather = "running"
    /\ \E port \in KernelPorts :
          LET address == <<agent.local_addrs[agent.next], port>>
          IN  /\ agent' = [agent EXCEPT
                              !.local_candidates =
                                  Append(@, [ty |-> "Host", address |-> address]),
                              !.next = @ + 1,
                              !.gather = IF agent.next + 1 > Len(agent.local_addrs)
                                         THEN "done" ELSE "running"]
              /\ task' = [NoTask EXCEPT !.pc = "recv_from",
                                        !.key = agent.password,
                                        !.local_addr = address]
    /\ UNCHANGED <<sent, rcvd>>

\* udp_listener binds, spawns the responder task that owns the socket and
\* returns the local address; gather pushes the candidate and breaks
BindSucceeds ==
    /\ agent.gather = "running"
    /\ \E port \in KernelPorts :
          LET address == <<agent.local_addrs[agent.next], port>>
          IN  /\ agent' = [agent EXCEPT
                              !.local_candidates =
                                  Append(@, [ty |-> "Host", address |-> address]),
                              !.gather = "done"]
              /\ task' = [NoTask EXCEPT !.pc = "recv_from",
                                        !.key = agent.password,
                                        !.local_addr = address]
    /\ UNCHANGED <<sent, rcvd>>

\* the condition under which the responder skips a parsed message
Ignored(m) == m.header.method # "Binding" /\ m.header.class # "Request"

\* the for loop over message.attributes: Some(first USERNAME) as <<u>>,
\* None as <<>>
FirstUsername(attributes) ==
    LET idx == { i \in 1..Len(attributes) : attributes[i].t = "Username" }
    IN  IF idx = {} THEN <<>>
        ELSE <<attributes[CHOOSE i \in idx : \A j \in idx : i <= j].value>>

\* mutant: the two attributes of the reply change places
reply_message_swapped(m, u, src_addr, key) ==
    with_fingerprint(
        with_message_integrity(
            with_attributes(
                base(HeaderNew("Success", m.header.transaction_id)),
                <<XorMappedAddress(src_addr[1], src_addr[2]), Username(u)>>),
            key))

\* the reply the responder prepares
reply_message(m, u, src_addr, key) ==
    with_fingerprint(
        with_message_integrity(
            with_attributes(
                base(HeaderNew("Success", m.header.transaction_id)),
                <<Username(u), XorMappedAddress(src_addr[1], src_addr[2])>>),
            key))

\* the task unwinds: its locals, the socket among them, are dropped
Panicked == [NoTask EXCEPT !.pc = "panicked"]

\* mutant: recv_from is reissued while the reply to the previous datagram
\* is still to be sent
RecvFromBeforeSendTo ==
    /\ task.pc \in {"recv_from", "send_to"}
    /\ rcvd < MaxDatagrams
    /\ rcvd' = rcvd + 1
    /\ \E d \in Datagrams, src_addr \in Peers :
          LET r == message(d)
          IN  IF r.k # "Ok" THEN task' = Panicked        \* unwrap()
              ELSE IF Ignored(r.v) THEN task' = task     \* continue
              ELSE LET maybe_username == FirstUsername(r.v.attributes)
                   IN  IF maybe_username = <<>> THEN task' = task  \* continue
                       ELSE task' =
                              [task EXCEPT
                                 !.pc = "send_to",
                                 !.req = r.v,
                                 !.n = rcvd + 1,
                                 !.src_addr = src_addr,
                                 !.reply = reply_message(r.v, maybe_username[1],
                                                         src_addr, task.key)]
    /\ UNCHANGED <<agent, sent>>

\* recv_from returns a datagram; the loop body runs up to send_to
RecvFrom ==
    /\ task.pc = "recv_from"
    /\ rcvd < MaxDatagrams
    /\ rcvd' = rcvd + 1
    /\ \E d \in Datagrams, src_addr \in Peers :
          LET r == message(d)
          IN  IF r.k # "Ok" THEN task' = Panicked        \* unwrap()
              ELSE IF Ignored(r.v) THEN task' = task     \* continue
              ELSE LET maybe_username == FirstUsername(r.v.attributes)
                   IN  IF maybe_username = <<>> THEN task' = task  \* continue
                       ELSE task' =
                              [task EXCEPT
                                 !.pc = "send_to",
                                 !.req = r.v,
                                 !.n = rcvd + 1,
                                 !.src_addr = src_addr,
                                 !.reply = reply_message(r.v, maybe_username[1],
                                                         src_addr, task.key)]
    /\ UNCHANGED <<agent, sent>>

\* recv_from returns an error: unwrap()
RecvFromFails ==
    /\ task.pc = "recv_from"
    /\ task' = Panicked
    /\ UNCHANGED <<agent, sent, rcvd>>

\* send_to completes; the loop returns to recv_from.  Each entry of sent
\* records, beside the bytes, the reply and request they came from and
\* whether the agent still existed.
SendTo ==
    /\ task.pc = "send_to"
    /\ sent' = Append(sent, [to |-> task.src_addr,
                             bytes |-> MessageToBytes(task.reply),
                             reply |-> task.reply,
                             req |-> task.req,
                             n |-> task.n,
                             agent_alive |-> agent.alive])
    /\ task' = [task EXCEPT !.pc = "recv_from", !.req = <<>>, !.n = 0,
                            !.src_addr = <<>>, !.reply = <<>>]
    /\ UNCHANGED <<agent, rcvd>>

\* send_to returns an error: unwrap()
SendToFails ==
    /\ task.pc = "send_to"
    /\ task' = Panicked
    /\ UNCHANGED <<agent, sent, rcvd>>

\* mutant: dropping the agent aborts the responder task and closes its socket
DropAgentAbortsTask ==
    /\ agent.alive
    /\ agent.gather # "running"
    /\ agent' = [agent EXCEPT !.alive = FALSE]
    /\ task' = IF task.pc \in {"recv_from", "send_to"}
               THEN [NoTask EXCEPT !.pc = "aborted"] ELSE task
    /\ UNCHANGED <<sent, rcvd>>

\* the Agent is dropped.  It has no Drop impl and holds neither the socket
\* nor a handle of the task: its strings and vectors are freed.
DropAgent ==
    /\ agent.alive
    /\ agent.gather # "running"
    /\ agent' = [agent EXCEPT !.alive = FALSE]
    /\ UNCHANGED <<task, sent, rcvd>>

IceNext ==
    \/ Gather /\ UNCHANGED <<builderVars, codecVars, pcVars>>
    \/ BindFails /\ UNCHANGED <<builderVars, codecVars, pcVars>>
    \/ BindSucceeds /\ UNCHANGED <<builderVars, codecVars, pcVars>>
    \/ RecvFrom /\ UNCHANGED <<builderVars, codecVars, pcVars>>
    \/ RecvFromFails /\ UNCHANGED <<builderVars, codecVars, pcVars>>
    \/ SendTo /\ UNCHANGED <<builderVars, codecVars, pcVars>>
    \/ SendToFails /\ UNCHANGED <<builderVars, codecVars, pcVars>>
    \/ DropAgent /\ UNCHANGED <<builderVars, codecVars, pcVars>>

IceSpecInit == BuilderIdle /\ CodecIdle /\ IceInit /\ PcIdle

SpecIce == IceSpecInit /\ [][IceNext]_vars

\* ===================================================== webrtc: facade
\* Attribute::is_ice_candidate: an attribute named candidate
is_ice_candidate(a) == a.t = "Value" /\ a.k = <<"c", "a", "n", "d", "i", "d", "a", "t", "e">>

\* session_description.rs: SessionDescription::candidates
candidates(d) ==
    Flatten([i \in 1..Len(d.media_descriptions) |->
                SelectSeq(d.media_descriptions[i].attributes, is_ice_candidate)])

\* SessionDescription::add_candidate on a description that has a media
\* description: the attribute joins the attributes of the first one
add_candidate(d, c) ==
    [d EXCEPT !.media_descriptions[1].attributes = Append(@, c)]

\* mutant: a candidate that fails to parse empties the list
add_remote_candidate_clearing(a, cand_attr) ==
    (CHOOSE y \in {(
    IF r.k # "Ok" THEN [agent |-> [a EXCEPT !.remote_candidates = <<>>], result |-> r]
        ELSE [agent |-> [a EXCEPT !.remote_candidates = Append(@, r.v)],
              result |-> Ok(<<>>, <<>>)]
    ) : r \in {RemoteCandidateTryFrom(cand_attr)}} : TRUE)

\* ice lib.rs: Agent::add_remote_candidate, the agent afterwards and the
\* Result returned
add_remote_candidate(a, cand_attr) ==
    (CHOOSE y \in {(
    IF r.k # "Ok" THEN [agent |-> a, result |-> r]
        ELSE [agent |-> [a EXCEPT !.remote_candidates = Append(@, r.v)],
              result |-> Ok(<<>>, <<>>)]
    ) : r \in {RemoteCandidateTryFrom(cand_attr)}} : TRUE)

\* webrtc lib.rs: the attributes create_answer gives the video description
AnswerMediaAttributes(ice_ufrag, ice_pwd) ==
    <<
      Value(<<"r", "t", "p", "m", "a", "p">>, <<"9", "6", " ", "V", "P", "8",
          "/", "9", "0", "0", "0", "0">>),
      Value(<<"r", "t", "p", "m", "a", "p">>, <<"9", "7", " ", "r", "t", "x",
          "/", "9", "0", "0", "0", "0">>),
      Value(<<"f", "m", "t", "p">>, <<"9", "7", " ", "a", "p", "t", "=", "9",
          "6">>),
      Value(<<"f", "t", "c", "p", "-", "f", "b">>, <<"9", "6", " ", "g", "o",
          "o", "g", "-", "r", "e", "m", "b">>),
      Value(<<"f", "t", "c", "p", "-", "f", "b">>, <<"9", "6", " ", "c", "c",
          "m", " ", "f", "i", "r">>),
      Value(<<"f", "t", "c", "p", "-", "f", "b">>, <<"9", "6", " ", "n", "a",
          "c", "k">>),
      Value(<<"f", "t", "c", "p", "-", "f", "b">>, <<"9", "6", " ", "n", "a",
          "c", "k", " ", "p", "l", "i">>),
      Value(<<"e", "x", "t", "m", "a", "p">>, <<"2", " ", "u", "r", "n", ":",
          "i", "e", "t", "f", ":", "p", "a", "r", "a", "m", "s", ":", "r", "t",
          "p", "-", "h", "d", "r", "e", "x", "t", ":", "t", "o", "f", "f", "s",
          "e", "t">>),
      Value(<<"e", "x", "t", "m", "a", "p">>, <<"3", " ", "h", "t", "t", "p",
          ":", "/", "/", "w", "w", "w", ".", "w", "e", "b", "r", "t", "c", ".",
          "o", "r", "g", "/", "e", "x", "p", "e", "r", "i", "m", "e", "n", "t",
          "s", "/", "r", "t", "p", "-", "h", "d", "r", "e", "x", "t", "/", "a",
          "b", "s", "-", "s", "e", "n", "d", "-", "t", "i", "m", "e">>),
      Value(<<"e", "x", "t", "m", "a", "p">>, <<"4", " ", "u", "r", "n", ":",
          "3", "g", "p", "p", ":", "v", "i", "d", "e", "o", "-", "o", "r", "i",
          "e", "n", "t", "a", "t", "i", "o", "n">>),
      Value(<<"s", "e", "t", "u", "p">>, <<"a", "c", "t", "i", "v", "e">>),
      Value(<<"m", "i", "d">>, <<"0">>),
      Property(<<"s", "e", "n", "d", "o", "n", "l", "y">>),
      Value(<<"i", "c", "e", "-", "u", "f", "r", "a", "g">>, ice_ufrag),
      Value(<<"i", "c", "e", "-", "p", "w", "d">>, ice_pwd),
      Value(<<"i", "c", "e", "-", "o", "p", "t", "i", "o", "n", "s">>, <<"r",
          "e", "n", "o", "m", "i", "n", "a", "t", "i", "o", "n">>),
      Property(<<"r", "t", "c", "p", "-", "m", "u", "x">>),
      Property(<<"r", "t", "c", "p", "-", "r", "s", "i", "z", "e">>)>>

\* webrtc lib.rs: the attributes create_answer gives the session
AnswerSessionAttributes ==
    <<
      Property(<<"i", "c", "e", "-", "l", "i", "t", "e">>),
      Value(<<"f", "i", "n", "g", "e", "r", "p", "r", "i", "n", "t">>, <<"s",
          "h", "a", "-", "5", "1", "2", " ", "4", "E", ":", "D", "D", ":", "2",
          "5", ":", "4", "1", ":", "9", "5", ":", "5", "1", ":", "8", "5", ":",
          "B", "6", ":", "6", "A", ":", "2", "9", ":", "4", "2", ":", "F", "F",
          ":", "5", "6", ":", "5", "B", ":", "4", "1", ":", "4", "7", ":", "2",
          "C", ":", "6", "C", ":", "6", "7", ":", "3", "6", ":", "7", "D", ":",
          "9", "7", ":", "9", "1", ":", "5", "A", ":", "6", "5", ":", "C", "7",
          ":", "E", "1", ":", "7", "6", ":", "1", "B", ":", "6", "E", ":", "D",
          "3", ":", "2", "2", ":", "4", "5", ":", "B", "4", ":", "9", "F", ":",
          "D", "F", ":", "E", "A", ":", "9", "3", ":", "F", "F", ":", "2", "0",
          ":", "F", "4", ":", "C", "B", ":", "A", "8", ":", "5", "3", ":", "A",
          "F", ":", "5", "0", ":", "D", "A", ":", "8", "7", ":", "5", "A", ":",
          "C", "5", ":", "4", "C", ":", "5", "B", ":", "F", "6", ":", "4", "C",
          ":", "5", "0", ":", "D", "C", ":", "D", "9", ":", "2", "9", ":", "A",
          "3", ":", "C", "0", ":", "1", "9", ":", "7", "A", ":", "1", "7", ":",
          "4", "8">>),
      Value(<<"m", "s", "i", "d", "-", "s", "e", "m", "a", "n", "t", "i",
          "c">>, <<" ", "W", "M", "S", " ", "*">>),
      Value(<<"g", "r", "o", "u", "p">>, <<"B", "U", "N", "D", "L", "E", " ",
          "0">>)>>

\* mutant: the answer carries the password as its user fragment too
create_answer_ufrag_is_pwd(a) ==
    [SessionDescriptionBase(
        0,
        [username |-> <<"r", "t", "c", "r", "s">>,
         session_id |-> <<"1", "4", "3", "3", "8", "3", "2", "4", "0", "2", "0", "4", "4", "1", "3", "0", "2", "2", "2">>,
         session_version |-> <<"1">>,
         network_type |-> <<"I", "N">>,
         address_type |-> <<"I", "P", "4">>,
         unicast_address |-> <<"1", "2", "7", ".", "0", ".", "0", ".", "1">>],
        <<"-">>,
        [timing |-> [start_time |-> <<"0">>, stop_time |-> <<"0">>],
         repeat_times |-> <<>>])
     EXCEPT
        !.attributes = AnswerSessionAttributes,
        !.media_descriptions =
            <<[MediaDescriptionBase([typ |-> "video", port |-> <<"7">>,
                                     protocol |-> <<"R", "T", "P", "/", "S", "A", "V", "P", "F">>,
                                     format |-> <<"9", "6", " ", "9", "7">>])
               EXCEPT
                  !.connection = <<[network_type |-> <<"I", "N">>,
                                    address_type |-> <<"I", "P", "4">>,
                                    connection_address |-> <<"1", "2", "7", ".", "0", ".", "0", ".", "1">>]>>,
                  !.attributes = AnswerMediaAttributes(StringText(a.password),
                                                       StringText(a.password))]>>]

\* webrtc lib.rs: PeerConnection<HasRemoteDescription>::create_answer;
\* SessionDescription::base, with_attributes and and_media_description, on
\* MediaDescription::base, with_connection and with_attributes
create_answer(a) ==
    [SessionDescriptionBase(
        0,
        [username |-> <<"r", "t", "c", "r", "s">>,
         session_id |-> <<"1", "4", "3", "3", "8", "3", "2", "4", "0", "2", "0", "4", "4", "1", "3", "0", "2", "2", "2">>,
         session_version |-> <<"1">>,
         network_type |-> <<"I", "N">>,
         address_type |-> <<"I", "P", "4">>,
         unicast_address |-> <<"1", "2", "7", ".", "0", ".", "0", ".", "1">>],
        <<"-">>,
        [timing |-> [start_time |-> <<"0">>, stop_time |-> <<"0">>],
         repeat_times |-> <<>>])
     EXCEPT
        !.attributes = AnswerSessionAttributes,
        !.media_descriptions =
            <<[MediaDescriptionBase([typ |-> "video", port |-> <<"7">>,
                                     protocol |-> <<"R", "T", "P", "/", "S", "A", "V", "P", "F">>,
                                     format |-> <<"9", "6", " ", "9", "7">>])
               EXCEPT
                  !.connection = <<[network_type |-> <<"I", "N">>,
                                    address_type |-> <<"I", "P", "4">>,
                                    connection_address |-> <<"1", "2", "7", ".", "0", ".", "0", ".", "1">>]>>,
                  !.attributes = AnswerMediaAttributes(StringText(a.username),
                                                       StringText(a.password))]>>]

\* ------------------------------------------------------ webrtc: inputs
MaxPcCalls == 4

\* values of candidate attributes an offer can carry: the lines of the
\* tests of ice lib.rs, and lines the parser refuses
OfferSrflx ==
    <<"1", "8", "5", "3", "8", "8", "7", "6", "7", "4", " ", "2", " ", "u",
        "d", "p", " ", "1", "5", "1", "8", "2", "8", "0", "4", "4", "7", " ",
        "4", "7", ".", "6", "1", ".", "6", "1", ".", "6", "1", " ", "3", "6",
        "7", "6", "8", " ", "t", "y", "p", " ", "s", "r", "f", "l", "x", " ",
        "r", "a", "d", "d", "r", " ", "1", "9", "2", ".", "1", "6", "8", ".",
        "0", ".", "1", "9", "6", " ", "r", "p", "o", "r", "t", " ", "3", "6",
        "7", "6", "8", " ", "g", "e", "n", "e", "r", "a", "t", "i", "o", "n",
        " ", "0">>
OfferTcpHost ==
    <<"4", " ", "2", " ", "T", "C", "P", " ", "2", "1", "0", "5", "4", "5",
        "8", "9", "4", "2", " ", "1", "0", ".", "1", "0", ".", "1", "0", ".",
        "1", "0", " ", "9", " ", "t", "y", "p", " ", "h", "o", "s", "t", " ",
        "t", "c", "p", "t", "y", "p", "e", " ", "a", "c", "t", "i", "v", "e">>
OfferMixedCase ==
    <<"3", " ", "2", " ", "U", "d", "p", " ", "1", "6", "8", "6", "0", "5",
        "2", "8", "6", "2", " ", "4", "7", ".", "6", "1", ".", "6", "1", ".",
        "6", "1", " ", "6", "4", "3", "4", "6", " ", "t", "y", "p", " ", "s",
        "r", "f", "l", "x">>
OfferUnknownType ==
    <<"1", " ", "1", " ", "u", "d", "p", " ", "1", " ", "1", "0", ".", "0",
        ".", "0", ".", "1", " ", "9", " ", "t", "y", "p", " ", "f", "o", "o">>
OfferCandidate(v) == Value(<<"c", "a", "n", "d", "i", "d", "a", "t", "e">>, v)

OfferBase ==
    SessionDescriptionBase(0, SdpOrigin, <<"-">>,
                           [timing |-> [start_time |-> <<"0">>, stop_time |-> <<"0">>],
                            repeat_times |-> <<>>])
OfferMedia(attributes) ==
    [MediaDescriptionBase(SdpMedia) EXCEPT !.attributes = attributes]

\* the offers handed to set_remote_description
Offers ==
    { OfferBase,
      [OfferBase EXCEPT !.media_descriptions =
          <<OfferMedia(<<Property(<<"s", "e", "n", "d", "r", "e", "c", "v">>), OfferCandidate(OfferSrflx),
                         OfferCandidate(OfferMixedCase),
                         OfferCandidate(OfferTcpHost)>>)>>],
      [OfferBase EXCEPT !.media_descriptions =
          <<OfferMedia(<<OfferCandidate(OfferUnknownType),
                         OfferCandidate(OfferTcpHost)>>),
            OfferMedia(<<OfferCandidate(OfferSrflx), Property(<<"s", "e", "n", "d", "r", "e", "c", "v">>),
                         OfferCandidate(OfferSrflx)>>)>>],
      [OfferBase EXCEPT !.attributes = <<OfferCandidate(OfferSrflx)>>,
                        !.media_descriptions = <<OfferMedia(<<>>)>>],
      [OfferBase EXCEPT !.media_descriptions =
          <<OfferMedia(<<OfferCandidate(<<>>), Property(<<"c", "a", "n", "d", "i", "d", "a", "t", "e">>),
                         OfferCandidate(OfferMixedCase)>>)>>] }

\* the answers handed to set_local_description: the one create_answer
\* returns, that one with a second media description, and that one with none
Answers(a) ==
    { create_answer(a),
      [create_answer(a) EXCEPT !.media_descriptions =
          @ \o <<MediaDescriptionBase(SdpMedia)>>],
      [create_answer(a) EXCEPT !.media_descriptions = <<>>] }

\* ----------------------------------------------------- webrtc: actions
\* PeerConnection::new(): Default builds the agent
PeerInit ==
    /\ BuilderIdle
    /\ CodecIdle
    /\ IceInit
    /\ pc = [NoPeerConnection EXCEPT !.state = "New"]

\* the for loop of set_remote_description: an Err is logged
RECURSIVE add_remote_candidates(_, _)
add_remote_candidates(a, attributes) ==
    IF attributes = <<>> THEN a
    ELSE add_remote_candidates(add_remote_candidate(a, Head(attributes)).agent,
                               Tail(attributes))

\* PeerConnection<New>::set_remote_description
SetRemoteDescription ==
    /\ pc.state = "New"
    /\ pc.call = "none"
    /\ \E offer \in Offers :
          /\ agent' = add_remote_candidates(agent, candidates(offer))
          /\ pc' = [pc EXCEPT !.state = "HasRemoteDescription",
                              !.remote_description = offer,
                              !.log = Append(@, "set_remote_description")]
    /\ UNCHANGED <<task, sent, rcvd>>

\* PeerConnection<HasRemoteDescription>::create_answer
CreateAnswer ==
    /\ pc.state = "HasRemoteDescription"
    /\ pc.call = "none"
    /\ Len(pc.log) < MaxPcCalls
    /\ pc' = [pc EXCEPT !.returned = create_answer(agent),
                        !.log = Append(@, "create_answer")]
    /\ UNCHANGED <<agent, task, sent, rcvd>>

\* PeerConnection<HasRemoteDescription>::set_local_description is called:
\* self is moved into the future, which runs up to the first bind of gather
SetLocalDescription ==
    /\ pc.state = "HasRemoteDescription"
    /\ pc.call = "none"
    /\ \E answer \in Answers(agent) :
          pc' = [pc EXCEPT !.call = "set_local_description",
                           !.arg = answer,
                           !.gathers = @ + 1,
                           !.log = Append(@, "set_local_description")]
    /\ agent' = gather_start(agent)
    /\ UNCHANGED <<task, sent, rcvd>>

\* the for loop of set_local_description over candidate_attributes()
RECURSIVE add_candidates(_, _)
add_candidates(d, attributes) ==
    IF attributes = <<>> THEN d
    ELSE add_candidates(add_candidate(d, Head(attributes)), Tail(attributes))

\* mutant: set_local_description borrows the connection and leaves it in
\* HasRemoteDescription
SetLocalDescriptionReturnKeepsPhase ==
    /\ pc.call = "set_local_description"
    /\ agent.gather = "done"
    /\ pc' = [pc EXCEPT !.local_description = pc.arg,
                        !.call = "none", !.arg = <<>>]
    /\ UNCHANGED <<agent, task, sent, rcvd>>

\* mutant: the loop over candidate_attributes() is left out
SetLocalDescriptionReturnNoCandidates ==
    /\ pc.call = "set_local_description"
    /\ agent.gather = "done"
    /\ pc' = [pc EXCEPT !.state = "HasLocalAndRemoteDescriptions",
                        !.local_description = pc.arg,
                        !.call = "none", !.arg = <<>>]
    /\ UNCHANGED <<agent, task, sent, rcvd>>

\* gather has returned: the rest of set_local_description.  What
\* add_candidate does to a description without a media description is not
\* known: the model lets it leave the description alone or panic.
SetLocalDescriptionReturn ==
    /\ pc.call = "set_local_description"
    /\ agent.gather = "done"
    /\ \E attributes \in {candidate_attributes(agent)} :
          IF attributes # <<>> /\ pc.arg.media_descriptions = <<>>
          THEN \/ pc' = [pc EXCEPT !.state = "HasLocalAndRemoteDescriptions",
                                   !.local_description = pc.arg,
                                   !.call = "none", !.arg = <<>>]
               \/ pc' = [pc EXCEPT !.state = "Panicked",
                                   !.call = "none", !.arg = <<>>]
          ELSE pc' = [pc EXCEPT !.state = "HasLocalAndRemoteDescriptions",
                                !.local_description =
                                    add_candidates(pc.arg, attributes),
                                !.call = "none", !.arg = <<>>]
    /\ UNCHANGED <<agent, task, sent, rcvd>>

\* PeerConnection<HasLocalAndRemoteDescriptions>::local_description
LocalDescription ==
    /\ pc.state = "HasLocalAndRemoteDescriptions"
    /\ Len(pc.log) < MaxPcCalls
    /\ pc' = [pc EXCEPT !.returned = pc.local_description,
                        !.log = Append(@, "local_description")]
    /\ UNCHANGED <<agent, task, sent, rcvd>>

PeerNext ==
    \/ SetRemoteDescription /\ UNCHANGED <<builderVars, codecVars>>
    \/ CreateAnswer /\ UNCHANGED <<builderVars, codecVars>>
    \/ SetLocalDescription /\ UNCHANGED <<builderVars, codecVars>>
    \/ BindFails /\ UNCHANGED <<builderVars, codecVars, pcVars>>
    \/ BindSucceeds /\ UNCHANGED <<builderVars, codecVars, pcVars>>
    \/ SetLocalDescriptionReturn /\ UNCHANGED <<builderVars, codecVars>>
    \/ LocalDescription /\ UNCHANGED <<builderVars, codecVars>>

SpecPeer == PeerInit /\ [][PeerNext]_vars

\* ---------------------------------------------------------- ice: claims
Running == {"recv_from", "send_to"}

\* the replies prepared so far, each with its request and destination
Replies ==
    { [reply |-> sent[i].reply, req |-> sent[i].req, to |-> sent[i].to] :
        i \in 1..Len(sent) }
      \cup (IF task.pc = "send_to"
            THEN {[reply |-> task.reply, req |-> task.req, to |-> task.src_addr]}
            ELSE {})

IsAcceptedBindingRequest(req) ==
    /\ req.header.method = "Binding"
    /\ req.header.class = "Request"
    /\ \E i \in 1..Len(req.attributes) : req.attributes[i].t = "Username"

\* C7: the responder replies only to a datagram that parses as a Binding
\* Request carrying USERNAME; for class Indication, Success or Error it
\* sends nothing.
C7_RepliesOnlyToBindingRequests ==
    \A r \in Replies : IsAcceptedBindingRequest(r.req)

\* C8: for every accepted Binding Request from src, the reply to src has
\* method Binding, class Success, the request's transaction id and exactly
\* the attributes Username(u), XorMappedAddress(src), MessageIntegrity,
\* Fingerprint in that order, u being the request's first USERNAME and the
\* MESSAGE-INTEGRITY key the agent's password.
C8_ReplyShape ==
    \A r \in Replies :
        IsAcceptedBindingRequest(r.req) =>
            /\ r.reply.header.method = "Binding"
            /\ r.reply.header.class = "Success"
            /\ r.reply.header.transaction_id = r.req.header.transaction_id
            /\ Len(r.reply.attributes) = 4
            /\ r.reply.attributes[1].t = "Username"
            /\ \E i \in 1..Len(r.req.attributes) :
                  /\ r.req.attributes[i] = r.reply.attributes[1]
                  /\ \A j \in 1..(i - 1) : r.req.attributes[j].t # "Username"
            /\ r.reply.attributes[2] = XorMappedAddress(r.to[1], r.to[2])
            /\ r.reply.attributes[3].t = "MessageIntegrity"
            /\ \E n \in 0..r.reply.header.length :
                  r.reply.attributes[3].value =
                      HmacSha1(agent.password,
                               MessageToBytes(
                                   [header |-> [r.reply.header EXCEPT !.length = n],
                                    attributes |-> Take(r.reply.attributes, 2)]))
            /\ r.reply.attributes[4].t = "Fingerprint"

\* C8 witness: a reply to a Binding Request with two USERNAMEs has been
\* sent, carrying the first of them.
C8_Witness ==
    \E i \in 1..Len(sent) :
        /\ sent[i].req.header.class = "Request"
        /\ Len(sent[i].req.attributes) = 2
        /\ sent[i].req.attributes[2] = Username(Knuth)
        /\ sent[i].reply.attributes[1] = Username(Abcd)

\* C9: a malformed inbound datagram is dropped without ending the
\* responder: whatever datagram recv_from returns, the responder task is
\* still running afterwards.
C9_ResponderSurvivesDatagram ==
    [][rcvd' = rcvd + 1 => task'.pc \in Running]_vars

C11_OneAtATime ==
    [][/\ (rcvd' # rcvd => task.pc = "recv_from")
       /\ (sent' # sent =>
              /\ task.pc = "send_to"
              /\ Len(sent') = Len(sent) + 1
              /\ sent'[Len(sent')].n = rcvd
              /\ sent'[Len(sent')].req = task.req)
       /\ (\A i, j \in 1..Len(sent') : i < j => sent'[i].n < sent'[j].n)]_vars

\* C11 witness: two replies have left, to the first and to the second
\* datagram, in that order.
C11_Witness ==
    /\ Len(sent) >= 2
    /\ sent[1].n = 1
    /\ sent[2].n = 2

\* C12: the STUN parser is total with typed failures: for every byte
\* string message() returns a message with a remainder or an error value,
\* also for an unknown method and for a comprehension-required attribute
\* type outside the dispatch table; it never aborts the caller.
C12_ParserReturns ==
    cop = "message" => cout.k \in {"Ok", "Err"}

\* C13: a successful parse consumes, behind the 20-byte header, exactly the
\* header.length bytes of the attribute section; the bytes beyond it are
\* the remainder, and input whose attributes do not end at that boundary
\* is refused.
C13_ConsumesHeaderLength ==
    (cop = "message" /\ cout.k = "Ok") =>
        /\ Len(cin) >= 20 + cout.v.header.length
        /\ cout.rest = Drop(cin, 20 + cout.v.header.length)

\* the type-code table the attribute dispatch is said to follow
DispatchTable ==
    [c \in {6, 8, 9, 32, 36, 37, 32808} |->
        CASE c = 6 -> "Username"
          [] c = 8 -> "MessageIntegrity"
          [] c = 9 -> "ErrorCode"
          [] c = 32 -> "XorMappedAddress"
          [] c = 36 -> "Priority"
          [] c = 37 -> "UseCandidate"
          [] c = 32808 -> "Fingerprint"]

\* C14: attribute dispatch follows the type-code table: a well-formed
\* attribute of type 0x0006, 0x0008, 0x0009, 0x0020, 0x0024, 0x0025 or
\* 0x8028 parses to the attribute the table names, so a Binding Request
\* carrying USE-CANDIDATE is parsed rather than rejected.
C14_DispatchTable ==
    /\ (/\ cop = "attribute"
        /\ cin \in {TlvToBytes(a) : a \in TlvAttrs} \cup {<<0, 37, 0, 0>>}
        /\ BeToU16(Take(cin, 2)) \in DOMAIN DispatchTable)
          => /\ cout.k = "Ok"
             /\ cout.v.t = DispatchTable[BeToU16(Take(cin, 2))]
    /\ (/\ cop = "message"
        /\ Len(cin) = 24
        /\ SubSeq(cin, 21, 24) = <<0, 37, 0, 0>>)
          => cout.k = "Ok"

\* C15: for every IPv4 address a and port p, parsing the bytes of
\* XorMappedAddress(a, p) gives XorMappedAddress(a, p) back; on the wire
\* the two port bytes are p XOR 0x2112 and the four address bytes are
\* a XOR 0x2112A442, big-endian.
C15_XorMappedAddressRoundTrip ==
    (cop = "tlv_round_trip" /\ cin.t = "XorMappedAddress") =>
        /\ cout.parsed = Ok(cin, <<>>)
        /\ Len(cout.bytes) = 12
        /\ SubSeq(cout.bytes, 7, 8) = U16ToBe(Xor(cin.port, 8466))
        /\ SubSeq(cout.bytes, 9, 12) = XorBytes(cin.address, <<33, 18, 164, 66>>)
        /\ \A i \in 1..12 : cout.bytes[i] \in 0..255

\* C15 witness: the round trip of an address and port whose bits all
\* differ from the cookie's.
C15_Witness ==
    /\ cop = "tlv_round_trip"
    /\ cin = TlvXorMappedAddress(<<192, 168, 0, 196>>, 36768)
    /\ cout.parsed.k = "Ok"
    /\ SubSeq(cout.bytes, 7, 12) = <<174, 178, 225, 186, 164, 134>>

\* C16: for every SessionDescription x built with the public constructors
\* (attributes with any name, repeat entries with any offset list, time-zone
\* adjustments with any offset in seconds, media descriptions),
\* from_str(x.to_string()) succeeds and returns x.
C16_SdpRoundTrip ==
    cop = "sdp_round_trip" =>
        /\ cout.text.k = "Ok"
        /\ cout.parsed.k = "Ok"
        /\ cout.parsed.v = cin

\* C17: from_str either matches the whole input or returns
\* Err(InvalidSessionDescription); a number out of range (v= above 255, a
\* 64-bit field above 2^64 - 1) is such an error, never an abort.
C17_FromStrFailsWithError ==
    cop = "from_str" =>
        \/ cout.k = "Ok" /\ cout.rest = <<>>
        \/ cout.k = "Err" /\ cout.v = "InvalidSessionDescription"

\* C18: for any valid candidate line s, serializing the result of parsing s
\* gives back s, related address and extension pairs included.
C18_SerializeParseGivesLine ==
    (cop = "candidate_from_str" /\ cout.parsed.k = "Ok") =>
        \E f \in FoundationIndexes : cout.lines[f] = cin

\* C18, as the code has it: a line the agent emits parses to its address with
\* type Host, and encoding that address under the same foundation gives the
\* line back; of any other line the result keeps the address and the type
\* only, whatever related address and extension pairs follow the type.
C18_EmittedLineRoundTrip ==
    cop = "candidate_from_str" =>
        /\ \A f \in FoundationIndexes, a \in CandidateAddresses :
              cin = encode_as_sdp(f, a).v =>
                  /\ cout.parsed = Ok(RemoteCandidate(a, "Host"), <<>>)
                  /\ cout.lines[f] = cin
        /\ \A t \in TransportTokens, ty \in TypeTokens, sfx \in CandidateSuffixes :
              cin = CandidateLine(<<"1">>, t, ty, sfx) =>
                  cout.parsed = RemoteCandidateFromStr(CandidateLine(<<"1">>, t, ty, <<>>))

C18_Witness ==
    /\ cop = "candidate_from_str"
    /\ cin = encode_as_sdp(1, SocketAddr(<<192, 168, 0, 196>>, 36768)).v
    /\ cout.parsed.k = "Ok"
    /\ cout.parsed.v.ty = "Host"
    /\ cout.lines[1] = cin

\* C19: every casing of udp and of tcp is accepted as Udp or Tcp, and a line
\* that differs from another only in the casing of its transport parses to
\* the same RemoteCandidate.
C19_TransportAnyCase ==
    cop = "candidate_from_str" =>
        \A t \in UdpCasings \cup TcpCasings, ty \in KnownTypes, sfx \in CandidateSuffixes :
            cin = CandidateLine(<<"1">>, t, ty, sfx) =>
                /\ TransportFromStr(t).k = "Ok"
                /\ TransportFromStr(t).v = (IF t \in UdpCasings THEN "Udp" ELSE "Tcp")
                /\ cout.parsed.k = "Ok"
                /\ cout.parsed =
                       RemoteCandidateFromStr(
                           CandidateLine(<<"1">>,
                                         IF t \in UdpCasings THEN <<"u", "d", "p">>
                                         ELSE <<"t", "c", "p">>,
                                         ty, sfx))

\* the line and the result of the parse the state holds: from_str is handed
\* the line, try_from the attribute Value("candidate", line)
ParsedLine == IF cop = "candidate_from_str" THEN cin ELSE cin.v
ParseResult == IF cop = "candidate_from_str" THEN cout.parsed ELSE cout

\* C20: a transport token that is neither udp nor tcp gives
\* UnsupportedTransport(token), a type token that is none of host, srflx,
\* prflx, relay gives UnsupportedCandidateType(token), and any other
\* violation of the grammar gives InvalidCandidate.
C20_TypedErrors ==
    (\/ cop = "candidate_from_str"
     \/ cop = "candidate_try_from" /\ cin.t = "Value" /\ cin.k = <<"c", "a", "n", "d", "i", "d", "a", "t", "e">>) =>
        /\ \A t \in OtherTransports, ty \in KnownTypes, sfx \in CandidateSuffixes :
              ParsedLine = CandidateLine(<<"1">>, t, ty, sfx) =>
                  ParseResult.k = "Err" /\ ParseResult.v = <<"UnsupportedTransport", t>>
        /\ \A t \in {<<"u", "d", "p">>, <<"t", "c", "p">>}, ty \in OtherTypes,
              sfx \in CandidateSuffixes :
              ParsedLine = CandidateLine(<<"1">>, t, ty, sfx) =>
                  ParseResult.k = "Err" /\ ParseResult.v = <<"UnsupportedCandidateType", ty>>
        /\ ParsedLine \in BrokenLines =>
              ParseResult.k = "Err" /\ ParseResult.v = <<"InvalidCandidate">>

\* ------------------------------------------------------- webrtc: claims
\* every attribute of the media descriptions of d, in order
MediaAttributes(d) ==
    Flatten([i \in 1..Len(d.media_descriptions) |->
                d.media_descriptions[i].attributes])

\* the candidate attributes among them that parse
ParsesAsCandidate(a) ==
    /\ a.t = "Value"
    /\ a.k = <<"c", "a", "n", "d", "i", "d", "a", "t", "e">>
    /\ RemoteCandidateTryFrom(a).k = "Ok"
AcceptedCandidates(d) ==
    [i \in 1..Len(SelectSeq(MediaAttributes(d), ParsesAsCandidate)) |->
        RemoteCandidateTryFrom(SelectSeq(MediaAttributes(d), ParsesAsCandidate)[i]).v]

\* C21: set_remote_description(offer) always ends in HasRemoteDescription
\* holding the offer; the remote candidates afterwards are the ones before
\* followed by, in offer order, one entry per candidate attribute that
\* parsed; no step ever removes or reorders a remote candidate.
C21_SetRemoteDescription ==
    [][/\ IsPrefix(agent.remote_candidates, agent'.remote_candidates)
       /\ (pc.state = "New" /\ pc' # pc) =>
             /\ pc'.state = "HasRemoteDescription"
             /\ pc'.remote_description \in Offers
             /\ agent'.remote_candidates =
                   agent.remote_candidates
                       \o AcceptedCandidates(pc'.remote_description)]_vars

\* an offer with three candidate attributes, the second of which does not
\* parse, is installed
C21_Witness ==
    /\ pc.state = "HasRemoteDescription"
    /\ Len(candidates(pc.remote_description)) = 3
    /\ Len(agent.remote_candidates) = 2
    /\ agent.remote_candidates[1].ty = "ServerReflexive"
    /\ agent.remote_candidates[2].ty = "Host"

\* the responder tasks spawned so far (gather runs once, and stops at the
\* first socket)
SpawnedTasks == IF task.pc = "none" THEN 0 ELSE 1

\* C22: gather starts at the first local address and moves on by one after
\* a failed bind, which adds neither a candidate nor a task; a successful
\* bind adds one host candidate, whose address is the address of the socket
\* (the local address tried, with the port the kernel chose), spawns the one
\* task that owns the socket and ends the gathering; once gathering is over
\* nothing is added.  At every point there are as many local candidates as
\* spawned tasks.
C22_Gather ==
    /\ [](Len(agent.local_candidates) = SpawnedTasks)
    /\ [][/\ (agent.gather = "idle" /\ agent'.gather # "idle") =>
                 agent'.next = 1 /\ agent'.local_candidates = <<>>
          /\ (agent.gather = "running" /\ agent' # agent) =>
                 \/ /\ agent'.local_candidates = agent.local_candidates
                    /\ task' = task
                    /\ agent'.next = agent.next + 1
                    /\ agent'.gather = IF agent.next = Len(agent.local_addrs)
                                       THEN "done" ELSE "running"
                 \/ /\ agent'.local_candidates =
                          Append(agent.local_candidates,
                                 [ty |-> "Host", address |-> task'.local_addr])
                    /\ task.pc = "none"
                    /\ task'.pc = "recv_from"
                    /\ task'.local_addr[1] = agent.local_addrs[agent.next]
                    /\ task'.local_addr[2] \in KernelPorts
                    /\ agent'.next = agent.next
                    /\ agent'.gather = "done"
          /\ agent.gather = "done" =>
                 /\ agent'.gather = "done"
                 /\ agent'.local_candidates = agent.local_candidates
                 /\ (task.pc = "none" <=> task'.pc = "none")]_vars

\* the bind of the first of two addresses failed and the bind of the second
\* succeeded
C22_Witness ==
    /\ agent.gather = "done"
    /\ Len(agent.local_addrs) = 2
    /\ agent.next = 2
    /\ Len(agent.local_candidates) = 1
    /\ agent.local_candidates[1].address = <<LocalB, 50000>>
    /\ task.pc = "recv_from"
    /\ task.local_addr = <<LocalB, 50000>>

\* C23: candidate_attributes() returns one attribute per local candidate, in
\* order, the i-th (from 0) being
\* Value("candidate", "<i> 1 udp 2130706431 <ip> <port> typ host"); the
\* priority 2^24*126 + 2^8*65535 + 256 - 1 = 2130706431 is at most 2^32 - 1.
C23_CandidateAttributes ==
    /\ (16777216 * 126) + (256 * 65535) + 256 - 1 = 2130706431
    /\ DigitsLeq(<<"2", "1", "3", "0", "7", "0", "6", "4", "3", "1">>, U32Max)
    /\ cop = "candidate_attributes" =>
          /\ Len(cout.attributes) = Len(cin)
          /\ \A i \in 1..Len(cin) :
                cout.attributes[i] =
                    Value(<<"c", "a", "n", "d", "i", "d", "a", "t", "e">>,
                          NatToString(i - 1) \o <<" ", "1", " ", "u", "d", "p", " ", "2", "1", "3", "0", "7", "0", "6", "4", "3", "1", " ">>
                              \o IpDisplay(cin[i].address[1]) \o <<" ">>
                              \o NatToString(cin[i].address[2])
                              \o <<" ", "t", "y", "p", " ", "h", "o", "s", "t">>)

\* three candidates: the third attribute has foundation 2
C23_Witness ==
    /\ cop = "candidate_attributes"
    /\ Len(cin) = 3
    /\ cout.attributes[3].t = "Value"
    /\ cout.attributes[3].v =
          <<"2", " ", "1", " ", "u", "d", "p", " ", "2", "1", "3", "0", "7", "0", "6", "4", "3", "1", " ", "4", "7", ".", "6", "1", ".", "6", "1", ".", "6", "1", " ", "6", "5", "5", "3", "5", " ", "t", "y", "p", " ", "h", "o", "s", "t">>

\* C24: set_local_description(answer) returns once gather is over; the
\* local description it stores is the answer with every entry of
\* candidate_attributes() appended, in order, to the attributes of its first
\* media description and nothing else changed, and the remote description
\* stored is the one set_remote_description stored.
C24_SetLocalDescription ==
    [][(pc.call = "set_local_description" /\ pc'.call = "none"
            /\ pc.arg.media_descriptions # <<>>) =>
          /\ agent.gather = "done"
          /\ agent' = agent
          /\ pc'.state = "HasLocalAndRemoteDescriptions"
          /\ pc'.remote_description = pc.remote_description
          /\ pc'.local_description.media_descriptions[1].attributes =
                pc.arg.media_descriptions[1].attributes
                    \o [i \in 1..Len(agent.local_candidates) |->
                           encode_as_sdp(i - 1, agent.local_candidates[i].address)]
          /\ [pc'.local_description EXCEPT
                !.media_descriptions[1].attributes =
                    pc.arg.media_descriptions[1].attributes] = pc.arg]_vars

\* an answer with two media descriptions after a gather that found a
\* candidate: the candidate is the last attribute of the first one
C24_Witness ==
    /\ pc.state = "HasLocalAndRemoteDescriptions"
    /\ Len(agent.local_candidates) = 1
    /\ Len(pc.local_description.media_descriptions) = 2
    /\ Last(pc.local_description.media_descriptions[1].attributes) =
          encode_as_sdp(0, agent.local_candidates[1].address)
    /\ pc.local_description.media_descriptions[2].attributes = <<>>
    /\ candidates(pc.remote_description) # <<>>

\* the phases in the order of the type states; a connection whose task
\* panicked is gone
PhaseRank(state) ==
    CASE state = "none" -> 0
      [] state = "New" -> 1
      [] state = "HasRemoteDescription" -> 2
      [] state = "HasLocalAndRemoteDescriptions" -> 3
      [] state = "Panicked" -> 4

\* how often the method was called on the connection
CallCount(method) == Cardinality({i \in 1..Len(pc.log) : pc.log[i] = method})

\* the positions of the calls of the method
CallsOf(method) == {i \in 1..Len(pc.log) : pc.log[i] = method}

\* C25: the connection moves forward only, through New, HasRemoteDescription
\* and HasLocalAndRemoteDescriptions; set_remote_description and
\* set_local_description are each called at most once, in that order,
\* create_answer only between them and local_description only after both;
\* gather runs at most once.
C25_ForwardOnly ==
    /\ [][PhaseRank(pc'.state) >= PhaseRank(pc.state)]_vars
    /\ [](/\ CallCount("set_remote_description") <= 1
          /\ CallCount("set_local_description") <= 1
          /\ pc.gathers <= 1
          /\ pc.gathers = CallCount("set_local_description")
          /\ (agent.gather # "idle") = (pc.gathers = 1)
          /\ \A i \in CallsOf("set_local_description") :
                \E j \in CallsOf("set_remote_description") : j < i
          /\ \A i \in CallsOf("create_answer") :
                /\ \E j \in CallsOf("set_remote_description") : j < i
                /\ \A j \in CallsOf("set_local_description") : i < j
          /\ \A i \in CallsOf("local_description") :
                /\ \E j \in CallsOf("set_remote_description") : j < i
                /\ \E j \in CallsOf("set_local_description") : j < i
          /\ pc.state = "HasLocalAndRemoteDescriptions" =>
                CallCount("set_local_description") = 1)

\* local_description() has been called after an answer was created and set
C25_Witness ==
    /\ pc.state = "HasLocalAndRemoteDescriptions"
    /\ pc.log = <<"set_remote_description", "create_answer",
                  "set_local_description", "local_description">>
    /\ pc.gathers = 1
    /\ pc.returned = pc.local_description

\* the values of the attributes called name among the attributes
ValuesOf(attributes, name) ==
    [i \in 1..Len(SelectSeq(attributes,
                            LAMBDA a : a.t = "Value" /\ a.k = name)) |->
        SelectSeq(attributes, LAMBDA a : a.t = "Value" /\ a.k = name)[i].v]

\* C26: the ufrag has 4 characters and the password 22, all of ICE_CHARS,
\* and neither changes while the agent lives; every answer create_answer
\* returns carries them as its one ice-ufrag and its one ice-pwd attribute;
\* the key of every spawned responder task is the password.
C26_Credentials ==
    /\ [](pc.state # "none" =>
            /\ Len(agent.username) = 4
            /\ Len(agent.password) = 22
            /\ \A i \in 1..Len(agent.username) :
                  AsciiChar(agent.username[i]) \in ICE_CHARS
            /\ \A i \in 1..Len(agent.password) :
                  AsciiChar(agent.password[i]) \in ICE_CHARS)
    /\ [][/\ agent'.username = agent.username
          /\ agent'.password = agent.password]_vars
    /\ [][pc'.log = Append(pc.log, "create_answer") =>
            /\ ValuesOf(MediaAttributes(pc'.returned),
                        <<"i", "c", "e", "-", "u", "f", "r", "a", "g">>)
                   = <<StringText(agent.username)>>
            /\ ValuesOf(MediaAttributes(pc'.returned),
                        <<"i", "c", "e", "-", "p", "w", "d">>)
                   = <<StringText(agent.password)>>]_vars
    /\ [](task.pc # "none" => task.key = agent.password)

\* an answer was created for the agent "9+/Z" and gather then spawned the
\* responder task
C26_Witness ==
    /\ agent.username = <<57, 43, 47, 90>>
    /\ pc.log = <<"set_remote_description", "create_answer",
                  "set_local_description">>
    /\ ValuesOf(MediaAttributes(pc.returned),
                <<"i", "c", "e", "-", "u", "f", "r", "a", "g">>)
           = <<<<"9", "+", "/", "Z">>>>
    /\ task.pc = "recv_from"
    /\ task.key = agent.password
    /\ pc.state = "HasLocalAndRemoteDescriptions"

\* ------------------------------------------------- stun: claims (Tlv)
\* C27: every attribute parser consumes the padding behind a value whose
\* length is not a multiple of four: parsing a.to_bytes() followed by
\* b.to_bytes() attribute by attribute gives a, with b.to_bytes() as the
\* remainder, and then b, for ErrorCode and ComprehensionOptional as for
\* Username.
C27_PaddingConsumed ==
    cop = "tlv_pair" =>
        /\ cout.first.k = "Ok"
        /\ cout.first.v = cin[1]
        /\ cout.first.rest = TlvToBytes(cin[2])
        /\ cout.second.k = "Ok"
        /\ cout.second.v = cin[2]
        /\ cout.second.rest = <<>>

\* the input of a parse of ERROR-CODE is a whole attribute of type 0x0009
\* with the four bytes of reserved bits, class and number
IsErrorCodeTlv(input) ==
    /\ Len(input) >= 8
    /\ Take(input, 2) = U16ToBe(9)
    /\ BeToU16(SubSeq(input, 3, 4)) >= 4
    /\ Len(input) >= 4 + BeToU16(SubSeq(input, 3, 4))

\* C28: error_code accepts an ERROR-CODE attribute only if its class is in
\* 1..6, its number in 0..99 and class * 100 + number a recognized code,
\* and fails with InvalidErrorCode otherwise; to_bytes() of the attribute
\* parsed from an accepted input gives the bytes that were consumed.
C28_ErrorCodeParse ==
    (cop = "error_code" /\ IsErrorCodeTlv(cin)) =>
        /\ cout.parsed.k \in {"Ok", "Err"}
        /\ cout.parsed.k = "Ok" =>
              /\ cin[7] % 8 \in 1..6
              /\ cin[8] \in 0..99
              /\ ((cin[7] % 8) * 100) + cin[8] \in NumericCodes
              /\ cout.bytes \o cout.parsed.rest = cin
        /\ cout.parsed.k = "Err" => cout.parsed.v[1] = "InvalidErrorCode"

\* -------------------------------------------------- sdp: claims (z=)
\* the factor of a unit suffix
UnitFactor(unit) ==
    CASE unit = <<"d">> -> 86400
      [] unit = <<"h">> -> 3600
      [] unit = <<"m">> -> 60
      [] unit = <<"s">> -> 1
      [] unit = <<>> -> 1

\* C29: an offset parses to its optionally signed decimal value times the
\* factor of its unit (d 86400, h 3600, m 60, s 1, none 1); a z= line parses
\* to the list of its (time, offset in seconds) adjustments in order, which
\* is not empty; a z= line without an adjustment is rejected.
C29_TimeZone ==
    cop = "time_zone" =>
        IF cin = <<>> THEN cout.k = "Err"
        ELSE /\ cout.k = "Ok"
             /\ cout.rest = <<>>
             /\ cout.v.adjustments # <<>>
             /\ cout.v.adjustments =
                   [i \in 1..Len(cin) |->
                       [time |-> Canonical(cin[i].time),
                        offset |-> (IF cin[i].sign = <<"-">> THEN -1 ELSE 1)
                                      * DigitsValue(cin[i].digits)
                                      * UnitFactor(cin[i].unit)]]

\* ------------------------------------------- ice: claims (candidates)
\* C30: every attribute the agent emits for a local candidate is accepted by
\* its own parser: RemoteCandidate::try_from of the i-th entry of
\* candidate_attributes() succeeds with the address of the i-th local
\* candidate and the type host.
C30_EmittedCandidatesParse ==
    cop = "candidate_attributes" =>
        /\ Len(cout.parsed) = Len(cin)
        /\ \A i \in 1..Len(cin) :
              /\ cout.parsed[i].k = "Ok"
              /\ cout.parsed[i].v = RemoteCandidate(cin[i].address, "Host")

\* eleven local candidates: the last attribute has the two-digit foundation
\* 10 and parses to the eleventh address
C30_Witness ==
    /\ cop = "candidate_attributes"
    /\ Len(cin) = 11
    /\ Take(cout.attributes[11].v, 3) = <<"1", "0", " ">>
    /\ cout.parsed[11].k = "Ok"
    /\ cout.parsed[11].v.address = SocketAddr(<<0, 0, 0, 255>>, 50011)
    /\ cout.parsed[11].v.ty = "Host"

====
